---- MODULE Spec2Model ----
(***************************************************************************)
(* Memory PDF project manager: the React App component (project editing,  *)
(* PDF export: pagination, duplication, tile placement, rasterization) and *)
(* the IndexedDB store of src/src/db.ts.  The component ships in two       *)
(* variants:                                                               *)
(*   "borderless"  src/unnamed/part_000  templates 6 and 12, cards placed  *)
(*                 edge to edge from the bottom-left page corner           *)
(*   "margin"      src/src/types.ts      templates 4, 6 and 8 on A4 with a *)
(*                 10 mm margin and a 4 mm gutter                          *)
(*                                                                         *)
(* Lengths are exact rationals.  A physical length is held as a whole      *)
(* number of 1/Scale mm, a document length (mmToPt) as a whole number of   *)
(* 1/254 pt.  Pixel sizes (mmToPx) are integers as in the code.            *)
(***************************************************************************)
EXTENDS Integers, Sequences, FiniteSets, TLC

VARIABLES
    variant,         \* which App component is running
    project,         \* useState<Project>: [id, name, createdAt, note, layout,
                     \* images], or NoProject
    nextId,          \* crypto.randomUUID(): the next unused id
    isLoading,       \* useState(true)
    load,            \* position and locals of the load effect
    store,           \* the database: [projects, lastProjectId]
    pending,         \* put requests not yet committed, per table in order
    isExportingPdf,  \* useState(false)
    pc,              \* position of handleExportPdf
    job,             \* values captured by the running handleExportPdf call
    index,           \* outer loop variable of handleExportPdf
    cardIndex,       \* inner loop variable of handleExportPdf
    pdfDoc,          \* the PDFDocument under construction: sequence of pages
    croppedBlob,     \* result of the last renderCroppedImage awaiting embedPng
    renderCalls,     \* renderCroppedImage invocations of the latest export
    exportsStarted,  \* exports that passed the guard of handleExportPdf
    downloads,       \* link.click() calls on a PDF blob
    failure,         \* the error that rejected the latest handleExportPdf call
    errorMessages,   \* error messages rendered to the user
    downloaded,      \* the files handed to the browser, where they are kept
    fileJobs,        \* the handleExportProject and handleImportProject calls
                     \* that wait at an await, with the values they captured
    previewUrlsRef,  \* useRef: image id -> object URL of its preview
    objectUrls,      \* the browser's object URLs: [created, revoked]
    mounted,         \* the component has not been torn down
    activeStep,      \* useState(0) of the stepper
    cropBatch        \* the crop events delivered to the handlers of one
                     \* render, and the project of that render

vars == <<variant, project, nextId, isLoading, load, store, pending,
          isExportingPdf, pc, job, index, cardIndex, pdfDoc, croppedBlob,
          renderCalls, exportsStarted, downloads, failure, errorMessages,
          downloaded, fileJobs, previewUrlsRef, objectUrls, mounted,
          activeStep, cropBatch>>

-----------------------------------------------------------------------------
(* Bounds of the model *)

MaxImages == 6      \* images ever added to the project
MaxBatch == 2       \* accepted files of one handleAddImages call
MaxExports == 1     \* exports started in one run
MaxPlanExports == 2 \* exports of a project that is exported repeatedly
MaxSide == 3        \* natural width and height of an image of any size
MaxPlanImages == 3  \* images of a project that is exported repeatedly
MaxEditImages == 2  \* images of a project whose crop states are edited
MaxLiveImages == 2  \* images of a project that is edited while it is exported
MaxStored == 2      \* projects in the store when the component is mounted
MaxBytes == 3       \* bytes of an image file
MaxFiles == 2       \* project files exported in one run
MaxSaves == 4       \* saveProject calls started by the user's changes
MaxEdits == 1       \* changes of a project that is being exported
MaxLiveEdits == 3   \* changes of a project whose changes are observed

Scale == 2 * 3 * 4  \* length unit: 1/Scale mm (divisible by every rows, cols and 2)

Min(a, b) == IF a <= b THEN a ELSE b
Max(a, b) == IF a >= b THEN a ELSE b
Abs(a) == IF a < 0 THEN -a ELSE a

RECURSIVE Flatten(_)
Flatten(seqs) == IF seqs = <<>> THEN <<>> ELSE Head(seqs) \o Flatten(Tail(seqs))

-----------------------------------------------------------------------------
(* Constants of the two components *)

Variants == {"borderless", "margin"}

dpi == 300
a4WidthMm == 210
a4HeightMm == 297
marginMm == 10
gutterMm == 4

\* zoom factors are whole numbers of 1/ZoomScale
ZoomScale == 2 * 5

\* minZoom={0.2}
minZoom == ZoomScale \div 5

\* A crop state is a record holding some of the fields x, y, zoom, rotation,
\* cropAreaPixels; a field the object does not have is not in its domain.
defaultCrop == [x |-> 0, y |-> 0, zoom |-> 1 * ZoomScale, rotation |-> 0]

\* image.crop of an image that has none
NoCrop == [field \in {} |-> 0]

\* { ...a, ...b }
spread(a, b) ==
    [field \in DOMAIN a \cup DOMAIN b |->
        IF field \in DOMAIN b THEN b[field] ELSE a[field]]

layoutOptions(v) == IF v = "borderless" THEN {6, 12} ELSE {4, 6, 8}

layoutValue(v) == IF v = "borderless" THEN 6 ELSE 4

\* the value of a property that an object does not have
Undefined == [undefined |-> TRUE]

\* layoutConfig[layout]; the margin variant keeps only rows and cols
layoutConfig(v, layout) ==
    IF layout \notin layoutOptions(v) THEN Undefined
    ELSE IF v = "borderless"
    THEN IF layout = 6
         THEN [pageWidthMm |-> 210, pageHeightMm |-> 297, cardSizeMm |-> 99,
               rows |-> 3, cols |-> 2, stripWidthMm |-> 12]
         ELSE [pageWidthMm |-> 297, pageHeightMm |-> 210, cardSizeMm |-> 70,
               rows |-> 3, cols |-> 4, stripWidthMm |-> 17]
    ELSE IF layout = 4 THEN [rows |-> 2, cols |-> 2]
         ELSE IF layout = 6 THEN [rows |-> 3, cols |-> 2]
         ELSE [rows |-> 4, cols |-> 2]

\* createEmptyProject() drawing uuid from crypto.randomUUID() at time now
createEmptyProject(v, uuid, now) ==
    [id |-> uuid, name |-> "Neues Projekt", createdAt |-> now, note |-> "",
     layout |-> layoutValue(v), images |-> <<>>]

-----------------------------------------------------------------------------
(* Unit conversion *)

\* mmToPx with the fraction cut off instead of rounded
mmToPxFloor(mm) == (mm * dpi * 10) \div (254 * Scale)

\* Math.round((mm / 25.4) * dpi), mm given in 1/Scale mm; Math.round rounds
\* half up, i.e. floor(x + 1/2)
mmToPx(mm) == (2 * mm * dpi * 10 + 254 * Scale) \div (2 * 254 * Scale)

\* (mm / 25.4) * 72, mm given in 1/Scale mm, result in 1/254 pt
mmToPt(mm) == (mm * 720) \div Scale

-----------------------------------------------------------------------------
(* Template geometry used by handleExportPdf, in 1/Scale mm *)

rows(v, layout) == layoutConfig(v, layout).rows
cols(v, layout) == layoutConfig(v, layout).cols

pageWidthMm(v, layout) ==
    IF v = "borderless" THEN layoutConfig(v, layout).pageWidthMm * Scale
    ELSE a4WidthMm * Scale

pageHeightMm(v, layout) ==
    IF v = "borderless" THEN layoutConfig(v, layout).pageHeightMm * Scale
    ELSE a4HeightMm * Scale

availableWidth(layout) ==
    a4WidthMm * Scale - 2 * marginMm * Scale
        - gutterMm * Scale * (cols("margin", layout) - 1)

availableHeight(layout) ==
    a4HeightMm * Scale - 2 * marginMm * Scale
        - gutterMm * Scale * (rows("margin", layout) - 1)

\* the borderless variant has no cells of its own: a cell is a card
cellWidth(v, layout) ==
    IF v = "borderless" THEN layoutConfig(v, layout).cardSizeMm * Scale
    ELSE availableWidth(layout) \div cols(v, layout)

cellHeight(v, layout) ==
    IF v = "borderless" THEN layoutConfig(v, layout).cardSizeMm * Scale
    ELSE availableHeight(layout) \div rows(v, layout)

\* cardSizeMm as the larger side of the cell
cardSizeMmMax(v, layout) ==
    IF v = "borderless" THEN layoutConfig(v, layout).cardSizeMm * Scale
    ELSE Max(cellWidth(v, layout), cellHeight(v, layout))

cardSizeMm(v, layout) ==
    IF v = "borderless" THEN layoutConfig(v, layout).cardSizeMm * Scale
    ELSE Min(cellWidth(v, layout), cellHeight(v, layout))

\* cardsPerPage with the grid sides added instead of multiplied
cardsPerPageSum(v, layout) == rows(v, layout) + cols(v, layout)

\* the step of the page loop: rows * cols (borderless), project.layout (margin)
cardsPerPage(v, layout) ==
    IF v = "borderless" THEN rows(v, layout) * cols(v, layout) ELSE layout

cardSizePx(v, layout) == mmToPx(cardSizeMm(v, layout))

\* pairedImages without the duplication
unpairedImages(images) == images

\* pairedImages with the second copies appended after all first copies
pairedImagesApart(images) == images \o images

\* project.images.flatMap((image) => [image, image])
RECURSIVE pairedImages(_)
pairedImages(images) ==
    IF images = <<>> THEN <<>>
    ELSE <<Head(images), Head(images)>> \o pairedImages(Tail(images))

\* slice with an inclusive end index
sliceInclusive(seq, from, count) ==
    SubSeq(seq, from + 1, Min(from + count + 1, Len(seq)))

\* pairedImages.slice(from, from + count), from 0-based
slice(seq, from, count) == SubSeq(seq, from + 1, Min(from + count, Len(seq)))

row(v, layout, i) == i \div cols(v, layout)
col(v, layout, i) == i % cols(v, layout)

\* xMm counting columns from one
xMmFromOne(v, layout, i) ==
    IF v = "borderless"
    THEN (col(v, layout, i) + 1) * cardSizeMm(v, layout)
    ELSE marginMm * Scale
         + (col(v, layout, i) + 1) * (cellWidth(v, layout) + gutterMm * Scale)
         + (cellWidth(v, layout) - cardSizeMm(v, layout)) \div 2

xMm(v, layout, i) ==
    IF v = "borderless"
    THEN col(v, layout, i) * cardSizeMm(v, layout)
    ELSE marginMm * Scale
         + col(v, layout, i) * (cellWidth(v, layout) + gutterMm * Scale)
         + (cellWidth(v, layout) - cardSizeMm(v, layout)) \div 2

\* yMm without the inversion of the row
yMmTopDown(v, layout, i) ==
    IF v = "borderless"
    THEN row(v, layout, i) * cardSizeMm(v, layout)
    ELSE marginMm * Scale
         + row(v, layout, i) * (cellHeight(v, layout) + gutterMm * Scale)
         + (cellHeight(v, layout) - cardSizeMm(v, layout)) \div 2

yMm(v, layout, i) ==
    IF v = "borderless"
    THEN (rows(v, layout) - 1 - row(v, layout, i)) * cardSizeMm(v, layout)
    ELSE marginMm * Scale
         + (rows(v, layout) - 1 - row(v, layout, i))
               * (cellHeight(v, layout) + gutterMm * Scale)
         + (cellHeight(v, layout) - cardSizeMm(v, layout)) \div 2

-----------------------------------------------------------------------------
(* renderCroppedImage.  Source-pixel coordinates (crop rectangle, canvas   *)
(* size) are whole numbers of 1/PxScale pixel, because the default crop    *)
(* halves an integer; natural image sizes and output sizes are pixels.     *)

PxScale == 1 + 1

\* A cosine, a sine or a side of the rotated bounding box is a number with
\* sixteen decimals, held as the tuple <<n0, n1, n2, n3, n4>> that stands for
\* n0 + n1/TrigBase + n2/TrigBase^2 + n3/TrigBase^3 + n4/TrigBase^4; the
\* entries of a negative number are all negative or 0.  Rotations are whole
\* degrees.
TrigBase == 100 * 100

\* Math.sin of 0, 1, ..., 90 degrees, rounded to sixteen decimals
sinTable ==
   <<
      <<0, 0, 0, 0, 0>>, <<0, 174, 5240, 6437, 2835>>, <<0, 348, 9949, 6702, 5010>>,
      <<0, 523, 3595, 6242, 9438>>, <<0, 697, 5647, 3744, 1253>>, <<0, 871, 5574, 2747, 6582>>,
      <<0, 1045, 2846, 3267, 6535>>, <<0, 1218, 6934, 3405, 1475>>, <<0, 1391, 7310, 960, 654>>,
      <<0, 1564, 3446, 5040, 2309>>, <<0, 1736, 4817, 7666, 9303>>, <<0, 1908, 899, 5376, 5448>>,
      <<0, 2079, 1169, 817, 7593>>, <<0, 2249, 5105, 4343, 8650>>, <<0, 2419, 2189, 5599, 6677>>,
      <<0, 2588, 1904, 5102, 5208>>, <<0, 2756, 3735, 5816, 9992>>, <<0, 2923, 7170, 4722, 7367>>,
      <<0, 3090, 1699, 4374, 9474>>, <<0, 3255, 6815, 4457, 1567>>, <<0, 3420, 2014, 3325, 6687>>,
      <<0, 3583, 6794, 9545, 3003>>, <<0, 3746, 659, 3415, 9120>>, <<0, 3907, 3112, 8489, 2738>>,
      <<0, 4067, 3664, 3075, 8002>>, <<0, 4226, 1826, 1740, 6994>>, <<0, 4383, 7114, 6789, 774>>,
      <<0, 4539, 9049, 9739, 5468>>, <<0, 4694, 7156, 2785, 8908>>, <<0, 4848, 962, 246, 3370>>,
      <<0, 5000, 0, 0, 0>>, <<0, 5150, 3807, 4910, 542>>, <<0, 5299, 1926, 4233, 2050>>,
      <<0, 5446, 3903, 5015, 271>>, <<0, 5591, 9290, 3470, 7468>>, <<0, 5735, 7643, 6351, 461>>,
      <<0, 5877, 8525, 2292, 4731>>, <<0, 6018, 1502, 3152, 483>>, <<0, 6156, 6147, 5325, 6583>>,
      <<0, 6293, 2039, 1049, 8375>>, <<0, 6427, 8760, 9686, 5393>>, <<0, 6560, 5902, 8990, 5073>>,
      <<0, 6691, 3060, 6358, 8582>>, <<0, 6819, 9836, 62, 4985>>, <<0, 6946, 5837, 458, 9973>>,
      <<0, 7071, 678, 1186, 5475>>, <<0, 7193, 3980, 338, 6511>>, <<0, 7313, 5370, 1619, 1705>>,
      <<0, 7431, 4482, 5477, 3942>>, <<0, 7547, 958, 222, 7720>>, <<0, 7660, 4444, 3118, 9780>>,
      <<0, 7771, 4596, 1456, 9709>>, <<0, 7880, 1075, 3606, 7220>>, <<0, 7986, 3551, 47, 2928>>,
      <<0, 8090, 1699, 4374, 9474>>, <<0, 8191, 5204, 4288, 9918>>, <<0, 8290, 3757, 2555, 417>>,
      <<0, 8386, 7056, 7945, 4240>>, <<0, 8480, 4809, 6156, 4260>>, <<0, 8571, 6730, 702, 1123>>,
      <<0, 8660, 2540, 3784, 4386>>, <<0, 8746, 1970, 7139, 3958>>, <<0, 8829, 4759, 2858, 9269>>,
      <<0, 8910, 652, 4188, 3679>>, <<0, 8987, 9404, 6299, 1670>>, <<0, 9063, 778, 7036, 6500>>,
      <<0, 9135, 4545, 7642, 6009>>, <<0, 9205, 485, 3452, 4403>>, <<0, 9271, 8385, 4566, 7874>>,
      <<0, 9335, 8042, 6497, 2017>>, <<0, 9396, 9262, 785, 9084>>, <<0, 9455, 1857, 5599, 3168>>,
      <<0, 9510, 5651, 6295, 1536>>, <<0, 9563, 475, 5963, 355>>, <<0, 9612, 6169, 5938, 3189>>,
      <<0, 9659, 2582, 6289, 683>>, <<0, 9702, 9572, 6275, 9965>>, <<0, 9743, 7006, 4785, 2352>>,
      <<0, 9781, 4760, 733, 8056>>, <<0, 9816, 2718, 3447, 6640>>, <<0, 9848, 775, 3012, 2081>>,
      <<0, 9876, 8834, 595, 1377>>, <<0, 9902, 6806, 8741, 5703>>, <<0, 9925, 4615, 1641, 3220>>,
      <<0, 9945, 2189, 5368, 2733>>, <<0, 9961, 9469, 8091, 7455>>, <<0, 9975, 6405, 259, 8242>>,
      <<0, 9986, 2953, 4754, 5739>>, <<0, 9993, 9082, 7019, 957>>, <<0, 9998, 4769, 5156, 3912>>,
      <<1, 0, 0, 0, 0>> >>

\* Math.sin(getRadianAngle(rotation))
sinOf(rotation) ==
    LET turn == rotation % 360
    IN  IF turn <= 90 THEN sinTable[turn + 1]
        ELSE IF turn <= 180 THEN sinTable[180 - turn + 1]
        ELSE IF turn <= 270 THEN [i \in 1..5 |-> -sinTable[turn - 180 + 1][i]]
        ELSE [i \in 1..5 |-> -sinTable[360 - turn + 1][i]]

\* Math.cos(getRadianAngle(rotation))
cosOf(rotation) == sinOf(rotation + 90)

\* the tuple whose entries after the first are within 0..TrigBase - 1, for a
\* tuple of entries that are not negative
carried(x) ==
    LET n4 == x[5]
        n3 == x[4] + n4 \div TrigBase
        n2 == x[3] + n3 \div TrigBase
        n1 == x[2] + n2 \div TrigBase
        n0 == x[1] + n1 \div TrigBase
    IN  <<n0, n1 % TrigBase, n2 % TrigBase, n3 % TrigBase, n4 % TrigBase>>

\* Math.abs(a * width) + Math.abs(b * height)
boxSide(a, width, b, height) ==
    carried([i \in 1..5 |-> Abs(a[i] * width) + Abs(b[i] * height)])

\* rotateSize(width, height, rotation), in pixels with sixteen decimals
rotateSize(width, height, rotation) ==
    [width  |-> boxSide(cosOf(rotation), width, sinOf(rotation), height),
     height |-> boxSide(sinOf(rotation), width, cosOf(rotation), height)]

\* canvas.width = bBoxWidth; canvas.height = bBoxHeight: a canvas has whole
\* pixels and drops the fraction; in 1/PxScale pixel
canvasOf(bBox) ==
    [width  |-> bBox.width[1] * PxScale,
     height |-> bBox.height[1] * PxScale]

\* image.crop?.rotation ?? 0
rotationOf(image) ==
    IF "rotation" \in DOMAIN image.crop THEN image.crop.rotation ELSE 0

\* image.crop?.cropAreaPixels ?? (centered square of the natural image)
cropAreaPixelsOf(image) ==
    IF "cropAreaPixels" \in DOMAIN image.crop
    THEN image.crop.cropAreaPixels
    ELSE LET minSize == Min(image.blob.width, image.blob.height)
         IN  [x      |-> ((image.blob.width - minSize) * PxScale) \div 2,
              y      |-> ((image.blob.height - minSize) * PxScale) \div 2,
              width  |-> minSize * PxScale,
              height |-> minSize * PxScale]

\* The part of the rotated canvas that the nine-argument drawImage samples:
\* a rectangle of negative extent is normalised, the rectangle is clipped to
\* the canvas, and nothing is painted when it has no area.
sampledSource(canvasWidth, canvasHeight, area) ==
    LET x0 == Max(0, Min(area.x, area.x + area.width))
        x1 == Min(canvasWidth, Max(area.x, area.x + area.width))
        y0 == Max(0, Min(area.y, area.y + area.height))
        y1 == Min(canvasHeight, Max(area.y, area.y + area.height))
    IN  IF area.width = 0 \/ area.height = 0 \/ x0 >= x1 \/ y0 >= y1
        THEN [painted |-> FALSE, x |-> 0, y |-> 0, width |-> 0, height |-> 0]
        ELSE [painted |-> TRUE, x |-> x0, y |-> y0,
              width |-> x1 - x0, height |-> y1 - y0]

\* What the environment can do to one renderCroppedImage call
RenderEnvs == {"ok", "ImageDecodeFailed", "RenderingUnavailable",
               "ImageEncodeFailed"}

\* renderCroppedImage reading the crop rectangle with a call that rejects a
\* rectangle without area or outside the canvas
renderCroppedImageStrict(image, outputSizePx, env) ==
    LET area   == cropAreaPixelsOf(image)
        bBox   == rotateSize(image.blob.width, image.blob.height,
                             rotationOf(image))
        canvas == canvasOf(bBox)
    IN  IF env # "ok"
        THEN [status |-> env]
        ELSE IF \/ area.width <= 0 \/ area.height <= 0
                \/ area.x < 0 \/ area.y < 0
                \/ area.x + area.width > canvas.width
                \/ area.y + area.height > canvas.height
        THEN [status |-> "IndexSizeError"]
        ELSE [status |-> "ok",
              width  |-> outputSizePx,
              height |-> outputSizePx,
              canvas |-> canvas,
              area   |-> area,
              rotation |-> rotationOf(image),
              source |-> sampledSource(canvas.width, canvas.height, area)]

\* renderCroppedImage(image, outputSizePx) in environment env: the PNG blob
\* (its raster size, the canvas the rotated image was drawn on, the crop
\* rectangle and rotation used and what was sampled), or the error it rejects
\* with
renderCroppedImage(image, outputSizePx, env) ==
    LET area   == cropAreaPixelsOf(image)
        bBox   == rotateSize(image.blob.width, image.blob.height,
                             rotationOf(image))
        canvas == canvasOf(bBox)
    IN  IF env # "ok"
        THEN [status |-> env]
        ELSE [status |-> "ok",
              width  |-> outputSizePx,
              height |-> outputSizePx,
              canvas |-> canvas,
              area   |-> area,
              rotation |-> rotationOf(image),
              source |-> sampledSource(canvas.width, canvas.height, area)]

-----------------------------------------------------------------------------
(* The App component *)

NoProject == [none |-> TRUE]
NoJob == [none |-> TRUE]
NoBlob == [none |-> TRUE]

\* no call waits for a blob or a file to be read
NoFileJobs == [exports |-> <<>>, imports |-> <<>>]

\* the load effect has run to its end
Loaded == [pc |-> "shown", lastProjectId |-> {}, loaded |-> {}]

\* the database after saveProject(stored) has completed
storeOf(stored) ==
    [projects |-> {stored},
     meta     |-> {[key |-> "lastProjectId", value |-> stored.id]}]

\* no put request is waiting; started counts the saveProject calls
NoPending == [projects |-> <<>>, meta |-> <<>>, started |-> 0]

storeVars == <<isLoading, load, store, pending>>

uiVars == <<fileJobs, previewUrlsRef, objectUrls, mounted, activeStep,
            cropBatch>>

\* what no effect of a render writes
otherUi == <<fileJobs, mounted, cropBatch>>

\* object URLs are numbered in the order in which they are created
createdFor(p) == IF p = NoProject THEN 0 ELSE Len(p.images)

\* the preview map after the preview effect has run for a project that was
\* just loaded: a new URL is created for every image and the map keeps,
\* under each id, the one created last
previewOf(p) ==
    IF p = NoProject THEN [id \in {} |-> 0]
    ELSE [id \in {p.images[k].id : k \in 1..Len(p.images)} |->
             CHOOSE k \in 1..Len(p.images) :
                 /\ p.images[k].id = id
                 /\ \A j \in (k + 1)..Len(p.images) : p.images[j].id # id]

\* the decoded natural size of the id-th file the user uploads
uploadedBlob(id) ==
    IF id % 3 = 1 THEN [width |-> 400, height |-> 300]
    ELSE IF id % 3 = 2 THEN [width |-> 100, height |-> 200]
    ELSE [width |-> 1, height |-> 1]

newImage(id) == [id |-> id, blob |-> uploadedBlob(id), crop |-> defaultCrop]

\* An empty project of an earlier session has been loaded and shown
Init ==
    /\ variant \in Variants
    /\ project = createEmptyProject(variant, 0, 0)
    /\ nextId = 1
    /\ isLoading = FALSE
    /\ load = Loaded
    /\ store = storeOf(project)
    /\ pending = NoPending
    /\ downloaded = <<>>
    /\ fileJobs = NoFileJobs
    /\ previewUrlsRef = previewOf(project)
    /\ objectUrls = [created |-> createdFor(project), revoked |-> {}]
    /\ mounted = TRUE
    /\ activeStep = 0
    /\ cropBatch = NoJob
    /\ isExportingPdf = FALSE
    /\ pc = "idle"
    /\ job = NoJob
    /\ index = 0
    /\ cardIndex = 0
    /\ pdfDoc = <<>>
    /\ croppedBlob = NoBlob
    /\ renderCalls = 0
    /\ exportsStarted = 0
    /\ downloads = 0
    /\ failure = "none"
    /\ errorMessages = <<>>

\* A project of an earlier session, of any size and layout, has been loaded
\* and shown
InitLoaded ==
    /\ variant \in Variants
    /\ \E n \in 0..MaxImages, layout \in layoutOptions(variant) :
         project = [createEmptyProject(variant, 0, 0) EXCEPT
                       !.layout = layout,
                       !.images = [k \in 1..n |-> newImage(k)]]
    /\ nextId = Len(project.images) + 1
    /\ isLoading = FALSE
    /\ load = Loaded
    /\ store = storeOf(project)
    /\ pending = NoPending
    /\ downloaded = <<>>
    /\ fileJobs = NoFileJobs
    /\ previewUrlsRef = previewOf(project)
    /\ objectUrls = [created |-> createdFor(project), revoked |-> {}]
    /\ mounted = TRUE
    /\ activeStep = 0
    /\ cropBatch = NoJob
    /\ isExportingPdf = FALSE
    /\ pc = "idle"
    /\ job = NoJob
    /\ index = 0
    /\ cardIndex = 0
    /\ pdfDoc = <<>>
    /\ croppedBlob = NoBlob
    /\ renderCalls = 0
    /\ exportsStarted = 0
    /\ downloads = 0
    /\ failure = "none"
    /\ errorMessages = <<>>

exportVars == <<isExportingPdf, pc, job, index, cardIndex, pdfDoc, croppedBlob,
                renderCalls, exportsStarted, downloads, failure, errorMessages>>

\* handleAddImages with count accepted files
handleAddImages(count) ==
    /\ project # NoProject
    /\ nextId + count - 1 <= MaxImages
    /\ project' = [project EXCEPT !.images =
           @ \o [k \in 1..count |-> newImage(nextId + k - 1)]]
    /\ nextId' = nextId + count
    /\ UNCHANGED <<variant, exportVars>>

handleLayoutChange(layout) ==
    /\ project # NoProject
    /\ project' = [project EXCEPT !.layout = layout]
    /\ UNCHANGED <<variant, nextId, exportVars>>

handleCreateNew ==
    /\ project' = createEmptyProject(variant, nextId, nextId)
    /\ nextId' = nextId + 1
    /\ UNCHANGED <<variant, exportVars>>

handleNameChange(value) ==
    /\ project # NoProject
    /\ project' = [project EXCEPT !.name = value]
    /\ UNCHANGED <<variant, nextId, exportVars>>

handleNoteChange(value) ==
    /\ project # NoProject
    /\ project' = [project EXCEPT !.note = value]
    /\ UNCHANGED <<variant, nextId, exportVars>>

handleRemoveImage(id) ==
    /\ project # NoProject
    /\ project' = [project EXCEPT !.images =
           SelectSeq(project.images, LAMBDA image : image.id # id)]
    /\ UNCHANGED <<variant, nextId, exportVars>>

\* handleCropUpdate applying the update to every image of the project
handleCropUpdateEvery(id, cropUpdate) ==
    /\ project # NoProject
    /\ project' = [project EXCEPT !.images =
           [k \in 1..Len(project.images) |->
               LET image == project.images[k]
               IN  [image EXCEPT !.crop =
                       spread(spread(defaultCrop, image.crop), cropUpdate)]]]
    /\ UNCHANGED <<variant, nextId, exportVars>>

\* handleCropUpdate replacing the crop state by the update over the defaults
handleCropUpdateReplace(id, cropUpdate) ==
    /\ project # NoProject
    /\ project' = [project EXCEPT !.images =
           [k \in 1..Len(project.images) |->
               LET image == project.images[k]
               IN  IF image.id = id
                   THEN [image EXCEPT !.crop = spread(defaultCrop, cropUpdate)]
                   ELSE image]]
    /\ UNCHANGED <<variant, nextId, exportVars>>

\* handleCropUpdate(id, cropUpdate), called by the Cropper callbacks and the
\* rotation slider of the tile of image id
handleCropUpdate(id, cropUpdate) ==
    /\ project # NoProject
    /\ project' = [project EXCEPT !.images =
           [k \in 1..Len(project.images) |->
               LET image == project.images[k]
               IN  IF image.id = id
                   THEN [image EXCEPT !.crop =
                            spread(spread(defaultCrop, image.crop), cropUpdate)]
                   ELSE image]]
    /\ UNCHANGED <<variant, nextId, exportVars>>

handleCropComplete(id, cropAreaPixels) ==
    handleCropUpdate(id, [cropAreaPixels |-> cropAreaPixels])

\* onInteractionStart of the Cropper of image id: a functional update.  Only
\* the Cropper of the borderless component is given this callback.
onInteractionStart(id) ==
    /\ variant = "borderless"
    /\ project # NoProject
    /\ project' = [project EXCEPT !.images =
           [k \in 1..Len(project.images) |->
               LET currentImage == project.images[k]
                   zoom == IF "zoom" \in DOMAIN currentImage.crop
                           THEN currentImage.crop.zoom
                           ELSE defaultCrop.zoom
               IN  IF currentImage.id = id
                   THEN [currentImage EXCEPT !.crop =
                            spread(spread(defaultCrop, currentImage.crop),
                                   [zoom |-> Max(minZoom, zoom)])]
                   ELSE currentImage]]
    /\ UNCHANGED <<variant, nextId, exportVars>>

-----------------------------------------------------------------------------
(* Crop events delivered before the component renders again.  The handlers *)
(* of one render share the project of that render; React applies the      *)
(* queued state updates in the order of the setProject calls.              *)

\* the project handleCropUpdate(id, cropUpdate) passes to setProject when
\* its component was rendered with project p
cropPatched(p, id, cropUpdate) ==
    [p EXCEPT !.images =
        [k \in 1..Len(p.images) |->
            IF p.images[k].id = id
            THEN [p.images[k] EXCEPT !.crop =
                     spread(spread(defaultCrop, p.images[k].crop), cropUpdate)]
            ELSE p.images[k]]]

\* the updater onInteractionStart passes to setProject, applied to previous
interactionStarted(previous, id) ==
    [previous EXCEPT !.images =
        [k \in 1..Len(previous.images) |->
            LET currentImage == previous.images[k]
                zoom == IF "zoom" \in DOMAIN currentImage.crop
                        THEN currentImage.crop.zoom
                        ELSE defaultCrop.zoom
            IN  IF currentImage.id = id
                THEN [currentImage EXCEPT !.crop =
                         spread(spread(defaultCrop, currentImage.crop),
                                [zoom |-> Max(minZoom, zoom)])]
                ELSE currentImage]]

\* the state after the queued updates of the events: an updater function is
\* applied to the state before it, a value replaces it; the value of
\* handleCropUpdate is made from the project of the render, rendered
RECURSIVE queuedUpdates(_, _, _)
queuedUpdates(state, rendered, events) ==
    IF events = <<>> THEN state
    ELSE queuedUpdates(
             IF Head(events).kind = "onInteractionStart"
             THEN interactionStarted(state, Head(events).id)
             ELSE cropPatched(rendered, Head(events).id,
                              Head(events).cropUpdate),
             rendered, Tail(events))

\* the Cropper and the slider of the tiles deliver events, then the
\* component renders again.  The component with page margins shows one
\* Cropper, the one of the selected image, in step 1, and it has no
\* onInteractionStart
deliverCropEvents(events) ==
    /\ project # NoProject
    /\ variant = "margin" =>
           /\ activeStep = 1
           /\ \A k \in 1..Len(events) :
                  /\ events[k].kind # "onInteractionStart"
                  /\ events[k].id = events[1].id
    /\ cropBatch' = [project |-> project, events |-> events]
    /\ project' = queuedUpdates(project, project, events)
    /\ UNCHANGED <<variant, nextId, exportVars, fileJobs, mounted>>

-----------------------------------------------------------------------------
(* The store (src/src/db.ts).  A table is the set of its records; a value  *)
(* that may be null is the set of at most one element.  Requests on one    *)
(* table are committed in the order in which they were made.               *)

\* db.projects.put(project) committed
putProject(projects, record) ==
    {p \in projects : p.id # record.id} \cup {record}

\* db.meta.add(item) instead of put: an entry that exists is kept
putMetaAdd(meta, item) ==
    IF \E i \in meta : i.key = item.key THEN meta ELSE meta \cup {item}

\* db.meta.put(item) committed
putMeta(meta, item) == {i \in meta : i.key # item.key} \cup {item}

\* An id is a number that stands for a string: EmptyId for the empty
\* string, which a project file may give as an id, every other number for
\* a string crypto.randomUUID() has returned.  The empty string is the
\* first key of an index.
EmptyId == 0 - 1

\* the test of a conditional on an id
truthy(value) == value # EmptyId

\* getLastProjectId(): item?.value ?? null
getLastProjectId(db) ==
    {item.value : item \in {i \in db.meta : i.key = "lastProjectId"}}

getProject(db, id) == {p \in db.projects : p.id = id}

\* db.projects.orderBy("createdAt").reverse().first(): the last record of
\* the index, which is ordered by createdAt and then by the primary key
getMostRecentProject(db) ==
    {p \in db.projects :
        \A q \in db.projects :
            \/ q.createdAt < p.createdAt
            \/ q.createdAt = p.createdAt /\ q.id <= p.id}

\* saveProject(record) up to its first await: db.projects.put is requested;
\* call numbers the calls in the order in which they are started
saveProject(queue, record, caller) ==
    [queue EXCEPT !.projects = Append(@, [project |-> record, from |-> caller,
                                          call |-> queue.started + 1]),
                  !.started = @ + 1]

\* the save effect with the dependency project?.id instead of project
saveEffectOnNewId ==
    /\ IF project' = NoProject \/ isLoading \/ project'.id = project.id
       THEN UNCHANGED pending
       ELSE pending' = saveProject(pending, project', "effect")
    /\ UNCHANGED <<isLoading, load, store>>

\* the save effect run by the render that follows a setProject call
saveEffect ==
    /\ IF project' = NoProject \/ isLoading
       THEN UNCHANGED pending
       ELSE pending' = saveProject(pending, project', "effect")
    /\ UNCHANGED <<isLoading, load, store>>

\* setProject(loaded); setIsLoading(false); and the save effect of the
\* render that follows, with the requests in queue still waiting.  The
\* load effect has no cleanup: after the component was torn down it runs on,
\* its state updates are dropped and no render follows.
show(loaded, queue) ==
    /\ load' = Loaded
    /\ IF mounted
       THEN /\ project' = loaded
            /\ isLoading' = FALSE
            /\ pending' = saveProject(queue, loaded, "effect")
       ELSE /\ pending' = queue
            /\ UNCHANGED <<project, isLoading>>

\* await getLastProjectId() resolves; lastProjectId ? getProject(...) : null
getLastProjectIdSettled ==
    /\ load.pc = "getLastProjectId"
    /\ LET lastProjectId == getLastProjectId(store)
       IN  load' = [pc |-> IF \E value \in lastProjectId : truthy(value)
                          THEN "getProject"
                          ELSE "getMostRecentProject",
                    lastProjectId |-> lastProjectId,
                    loaded |-> {}]
    /\ UNCHANGED <<variant, project, nextId, isLoading, store, pending,
                   exportVars, downloaded, uiVars>>

\* await getProject(lastProjectId) resolves
getProjectSettled ==
    /\ load.pc = "getProject"
    /\ LET loaded == UNION {getProject(store, id) : id \in load.lastProjectId}
       IN  IF loaded # {}
           THEN /\ show(CHOOSE p \in loaded : TRUE, pending)
                /\ UNCHANGED <<variant, nextId, store, exportVars, downloaded>>
           ELSE /\ load' = [load EXCEPT !.pc = "getMostRecentProject"]
                /\ UNCHANGED <<variant, project, nextId, isLoading, store,
                               pending, exportVars, downloaded>>

\* await getMostRecentProject() resolves; without a stored project an empty
\* one is created and saveProject(loaded) is called
getMostRecentProjectSettled ==
    /\ load.pc = "getMostRecentProject"
    /\ LET loaded == getMostRecentProject(store)
       IN  IF loaded # {}
           THEN /\ show(CHOOSE p \in loaded : TRUE, pending)
                /\ UNCHANGED <<variant, nextId, store, exportVars, downloaded>>
           ELSE /\ load' = [load EXCEPT
                       !.pc = "saveProject",
                       !.loaded = {createEmptyProject(variant, nextId, nextId)}]
                /\ nextId' = nextId + 1
                /\ pending' = saveProject(pending,
                       createEmptyProject(variant, nextId, nextId), "load")
                /\ UNCHANGED <<variant, project, isLoading, store, exportVars,
                               downloaded>>

\* the oldest db.projects.put request is committed; the saveProject call
\* that made it goes on to db.meta.put
projectsPutSettled ==
    /\ pending.projects # <<>>
    /\ store' = [store EXCEPT
           !.projects = putProject(@, Head(pending.projects).project)]
    /\ pending' = [pending EXCEPT
           !.projects = Tail(@),
           !.meta = Append(@, Head(pending.projects))]
    /\ UNCHANGED <<variant, project, nextId, isLoading, load, exportVars,
                   downloaded, uiVars>>

\* the oldest db.meta.put request is committed and its saveProject call
\* resolves; the load effect and handleImportProject, which await it, go on
\* (a state update of a component that was torn down has no effect); the
\* effects of the render that follows are conjoined by the specifications
metaPutSettled ==
    /\ pending.meta # <<>>
    /\ LET put   == Head(pending.meta)
           queue == [pending EXCEPT !.meta = Tail(@)]
       IN  /\ store' = [store EXCEPT !.meta =
                  putMeta(@, [key |-> "lastProjectId",
                              value |-> put.project.id])]
           /\ IF put.from = "load"
              THEN show(put.project, queue)
              ELSE IF put.from = "import" /\ mounted
              THEN /\ project' = put.project
                   /\ pending' = saveProject(queue, put.project, "effect")
                   /\ UNCHANGED <<isLoading, load>>
              ELSE /\ pending' = queue
                   /\ UNCHANGED <<project, isLoading, load>>
    /\ UNCHANGED <<variant, nextId, exportVars, downloaded>>

-----------------------------------------------------------------------------
(* Preview URLs *)

\* the positions of the images of p that have no URL in the map current
unheld(p, current) ==
    {k \in 1..Len(p.images) : p.images[k].id \notin DOMAIN current}

\* the map the preview effect builds: the held URL of an image that has one
\* and otherwise the URL created at the last position of its id
nextUrls(p, current, created) ==
    [id \in {p.images[k].id : k \in 1..Len(p.images)} |->
        IF id \in DOMAIN current THEN current[id]
        ELSE created + Cardinality(
                 {j \in unheld(p, current) :
                     \E k \in 1..Len(p.images) : p.images[k].id = id /\ j <= k})]

\* the preview effect of the render that follows a setProject call
previewEffect ==
    /\ IF project' = NoProject
       THEN UNCHANGED <<previewUrlsRef, objectUrls>>
       ELSE /\ previewUrlsRef' =
                   nextUrls(project', previewUrlsRef, objectUrls.created)
            /\ objectUrls' =
                   [created |-> objectUrls.created
                          + Cardinality(unheld(project', previewUrlsRef)),
                    revoked |-> objectUrls.revoked \cup
                          {previewUrlsRef[id] :
                              id \in DOMAIN previewUrlsRef \
                                  DOMAIN nextUrls(project', previewUrlsRef,
                                                  objectUrls.created)}]

\* the component is torn down: the cleanup of the second effect
unmount ==
    /\ mounted
    /\ mounted' = FALSE
    /\ objectUrls' = [objectUrls EXCEPT
           !.revoked = @ \cup {previewUrlsRef[id] : id \in DOMAIN previewUrlsRef}]
    /\ UNCHANGED <<variant, project, nextId, storeVars, exportVars, downloaded,
                   fileJobs, previewUrlsRef, activeStep, cropBatch>>

-----------------------------------------------------------------------------
(* The stepper of the variant with page margins *)

steps == <<"Bilder", "Zuschneiden", "Layout & PDF">>

\* the last step that can be shown for the project p
maxStep(p) ==
    IF p = NoProject THEN 0
    ELSE IF Len(p.images) = 0 THEN 0 ELSE Len(steps) - 1

\* the step handleStepChange(nextStep) passes to setActiveStep
clampedStep(p, nextStep) == Min(Max(nextStep, 0), maxStep(p))

\* the render after a handler keeps the step whatever the project is
stepClampEffectOff(step) ==
    activeStep' = step

\* the effect on [project, activeStep], run until it changes nothing, after
\* a handler that left the step at the value step
stepClampEffect(step) ==
    activeStep' = IF project' # NoProject /\ step > maxStep(project')
                  THEN maxStep(project') ELSE step

handleStepChange(nextStep) ==
    /\ project # NoProject
    /\ UNCHANGED <<variant, project, nextId, storeVars, exportVars, downloaded,
                   fileJobs, previewUrlsRef, objectUrls, mounted, cropBatch>>
    /\ stepClampEffect(clampedStep(project, nextStep))

\* the step after await saveProject(...) of the call put belongs to:
\* handleImportProject of the stepper variant shows step 1 of a project
\* with images
importedStep(put) ==
    IF variant = "margin" /\ put.from = "import" /\ mounted
    THEN IF Len(put.project.images) = 0 THEN 0 ELSE 1
    ELSE activeStep

\* what the render after setProject runs besides the save effect: the
\* preview effect and the step effect, for a handler that left the step at
\* the value step; a component that was torn down is not rendered
shown(step) ==
    IF mounted
    THEN /\ previewEffect
         /\ stepClampEffect(step)
    ELSE UNCHANGED <<previewUrlsRef, objectUrls, activeStep>>

\* the effects of the render that follows a setProject call of a handler
rendered ==
    /\ saveEffect
    /\ shown(activeStep)

\* metaPutSettled and the effects of the render that follows it
metaPutShown ==
    /\ metaPutSettled
    /\ shown(importedStep(Head(pending.meta)))
    /\ UNCHANGED <<fileJobs, mounted, cropBatch>>

\* the handlers are reachable once the project is shown.  A file that was
\* picked is read before the user goes on: handleImportProject up to await
\* file.text() changes nothing a handler reads, so a change made while the
\* file is read is a change made before the file was picked
Editable ==
    /\ ~isLoading /\ project # NoProject /\ pending.started < MaxSaves
    /\ fileJobs.imports = <<>>

\* no saveProject call is waiting for the database
Saved == pending.projects = <<>> /\ pending.meta = <<>>

\* the user changes the project at most limit times, each time after the
\* change before has been saved
Editing(limit) == Editable /\ Saved /\ pending.started < limit

-----------------------------------------------------------------------------
(* Project files: handleExportProject, handleImportProject and the         *)
(* conversions they rely on.  A blob is [bytes, type].  A string that is   *)
(* read character by character (a type, a data URL, the data of an image)  *)
(* is the sequence of its UTF-16 code units; a JSON text is the tree of    *)
(* its values.                                                             *)

\* "image/png", "image/jpeg", "IMAGE/PNG" and "image/png,x"
imagePng == <<105, 109, 97, 103, 101, 47, 112, 110, 103>>
imageJpeg == <<105, 109, 97, 103, 101, 47, 106, 112, 101, 103>>
imagePngUpperCase == <<73, 77, 65, 71, 69, 47, 80, 78, 71>>
imagePngCommaX == imagePng \o <<44, 120>>

Pad == 64

\* the base64 digits readAsDataURL writes for the bytes of a blob
RECURSIVE base64Digits(_)
base64Digits(bytes) ==
    IF bytes = <<>> THEN <<>>
    ELSE IF Len(bytes) = 1
    THEN <<bytes[1] \div 4, (bytes[1] % 4) * 16, Pad, Pad>>
    ELSE IF Len(bytes) = 2
    THEN <<bytes[1] \div 4,
           (bytes[1] % 4) * 16 + bytes[2] \div 16,
           (bytes[2] % 16) * 4,
           Pad>>
    ELSE <<bytes[1] \div 4,
           (bytes[1] % 4) * 16 + bytes[2] \div 16,
           (bytes[2] % 16) * 4 + bytes[3] \div 64,
           bytes[3] % 64>>
         \o base64Digits(SubSeq(bytes, 4, Len(bytes)))

\* the character of a base64 digit: A-Z, a-z, 0-9, "+", "/", and "="
charOf(digit) ==
    IF digit = Pad THEN 61
    ELSE IF digit < 26 THEN 65 + digit
    ELSE IF digit < 52 THEN 97 + (digit - 26)
    ELSE IF digit < 62 THEN 48 + (digit - 52)
    ELSE IF digit = 62 THEN 43 ELSE 47

\* reader.readAsDataURL(blob): "data:" + type + ";base64," + digits, with
\* "application/octet-stream" for a blob without a type
readAsDataURL(blob) ==
    <<100, 97, 116, 97, 58>>
    \o (IF blob.type = <<>>
        THEN <<97, 112, 112, 108, 105, 99, 97, 116, 105, 111, 110, 47,
               111, 99, 116, 101, 116, 45, 115, 116, 114, 101, 97, 109>>
        ELSE blob.type)
    \o <<59, 98, 97, 115, 101, 54, 52, 44>>
    \o [k \in 1..Len(base64Digits(blob.bytes)) |->
            charOf(base64Digits(blob.bytes)[k])]

\* blobToBase64: result.split(",")[1] ?? "", what stands between the first
\* comma (44) of the data URL and its second comma or its end
blobToBase64(blob) ==
    LET result == readAsDataURL(blob)
        commas == {k \in 1..Len(result) : result[k] = 44}
    IN  IF commas = {} THEN <<>>
        ELSE LET first == CHOOSE k \in commas : \A c \in commas : k <= c
                 later == {k \in commas : k > first}
                 last  == IF later = {} THEN Len(result)
                          ELSE (CHOOSE k \in later :
                                   \A c \in later : k <= c) - 1
             IN  SubSeq(result, first + 1, last)

\* atob removes ASCII whitespace (tab, LF, FF, CR, space)
stripped(data) == SelectSeq(data, LAMBDA c : c \notin {9, 10, 12, 13, 32})

\* and, from data whose length is a multiple of four, one or two "=" at
\* its end
unpadded(data) ==
    IF Len(data) > 0 /\ Len(data) % 4 = 0 /\ data[Len(data)] = 61
    THEN IF data[Len(data) - 1] = 61
         THEN SubSeq(data, 1, Len(data) - 2)
         ELSE SubSeq(data, 1, Len(data) - 1)
    ELSE data

\* atob(base64) returns: what is left has not one character more than
\* groups of four and holds nothing but A-Z, a-z, 0-9, "+" and "/";
\* otherwise atob throws an InvalidCharacterError
isBase64(base64) ==
    LET data == unpadded(stripped(base64))
    IN  /\ Len(data) % 4 # 1
        /\ \A k \in 1..Len(data) :
               data[k] \in (65..90) \cup (97..122) \cup (48..57) \cup {43, 47}

\* the base64 digit of a character
digitOf(c) ==
    IF c \in 65..90 THEN c - 65
    ELSE IF c \in 97..122 THEN c - 97 + 26
    ELSE IF c \in 48..57 THEN c - 48 + 52
    ELSE IF c = 43 THEN 62 ELSE 63

\* the character codes of the binary string of the digits: three for four
\* digits, two for three digits at the end and one for two
RECURSIVE decoded(_)
decoded(digits) ==
    IF Len(digits) < 2 THEN <<>>
    ELSE IF Len(digits) = 2
    THEN <<digits[1] * 4 + digits[2] \div 16>>
    ELSE IF Len(digits) = 3
    THEN <<digits[1] * 4 + digits[2] \div 16,
           (digits[2] % 16) * 16 + digits[3] \div 4>>
    ELSE <<digits[1] * 4 + digits[2] \div 16,
           (digits[2] % 16) * 16 + digits[3] \div 4,
           (digits[3] % 4) * 64 + digits[4]>>
         \o decoded(SubSeq(digits, 5, Len(digits)))

\* what a call that throws gives instead of a value
InvalidCharacterError == [thrown |-> "InvalidCharacterError"]

\* atob(base64)
atob(base64) ==
    IF isBase64(base64)
    THEN decoded([k \in 1..Len(unpadded(stripped(base64))) |->
                     digitOf(unpadded(stripped(base64))[k])])
    ELSE InvalidCharacterError

\* the type new Blob(parts, { type }) has: the empty string if the given
\* one holds a character outside U+0020..U+007E, otherwise the given one in
\* ASCII lower case
blobType(type) ==
    IF \E k \in 1..Len(type) : type[k] \notin 32..126 THEN <<>>
    ELSE [k \in 1..Len(type) |->
             IF type[k] \in 65..90 THEN type[k] + 32 ELSE type[k]]

\* base64ToBlob: bytes[i] = binary.charCodeAt(i); new Blob([bytes], { type })
base64ToBlob(base64, type) ==
    IF isBase64(base64)
    THEN [bytes |-> atob(base64), type |-> blobType(type)]
    ELSE InvalidCharacterError

\* a property of an object literal given to JSON.stringify: its value is
\* undefined when the object has no such property
member(object, key, text) ==
    [key |-> key, value |-> IF key \in DOMAIN object THEN text ELSE Undefined]

\* the text of an object: JSON.stringify writes the properties whose value
\* is not undefined in their order
jsonObject(members) ==
    [object |-> SelectSeq(members, LAMBDA m : m.value # Undefined)]

\* the text of a crop state; the numbers of the model are finite and are
\* written as they are
jsonCrop(crop) ==
    jsonObject(<<
        member(crop, "x", [number |-> crop.x]),
        member(crop, "y", [number |-> crop.y]),
        member(crop, "zoom", [number |-> crop.zoom]),
        member(crop, "rotation", [number |-> crop.rotation]),
        member(crop, "cropAreaPixels", jsonObject(<<
            member(crop.cropAreaPixels, "x",
                   [number |-> crop.cropAreaPixels.x]),
            member(crop.cropAreaPixels, "y",
                   [number |-> crop.cropAreaPixels.y]),
            member(crop.cropAreaPixels, "width",
                   [number |-> crop.cropAreaPixels.width]),
            member(crop.cropAreaPixels, "height",
                   [number |-> crop.cropAreaPixels.height])>>))>>)

\* the text of an entry of images
jsonImage(image) ==
    jsonObject(<<
        member(image, "id", [string |-> image.id]),
        member(image, "name", [string |-> image.name]),
        member(image, "type", [string |-> image.type]),
        member(image, "crop", jsonCrop(image.crop)),
        member(image, "data", [string |-> image.data])>>)

\* JSON.stringify(value) of an ExportedProject
JSONstringify(value) ==
    jsonObject(<<
        member(value, "id", [string |-> value.id]),
        member(value, "name", [string |-> value.name]),
        member(value, "createdAt", [string |-> value.createdAt]),
        member(value, "note", [string |-> value.note]),
        member(value, "layout", [number |-> value.layout]),
        member(value, "images",
               [array |-> [k \in 1..Len(value.images) |->
                              jsonImage(value.images[k])]])>>)

\* JSON.parse(text): the value of a string or a number, the array of the
\* values of an array, the object with the properties of an object
RECURSIVE JSONparse(_)
JSONparse(text) ==
    IF "string" \in DOMAIN text THEN text.string
    ELSE IF "number" \in DOMAIN text THEN text.number
    ELSE IF "array" \in DOMAIN text
    THEN [k \in 1..Len(text.array) |-> JSONparse(text.array[k])]
    ELSE [key \in {text.object[k].key : k \in 1..Len(text.object)} |->
             JSONparse(text.object[
                 CHOOSE k \in 1..Len(text.object) :
                     /\ text.object[k].key = key
                     /\ \A j \in (k + 1)..Len(text.object) :
                            text.object[j].key # key].value)]

\* the entry handleExportProject pushes for an image; crop is undefined for
\* an image without a crop state
exportedImage(image, data) ==
    spread([id |-> image.id, name |-> image.name, type |-> image.type,
            data |-> data],
           IF image.crop = NoCrop THEN NoCrop ELSE [crop |-> image.crop])

exportedProject(v, p, images) ==
    [id        |-> p.id,
     name      |-> p.name,
     createdAt |-> p.createdAt,
     note      |-> p.note,
     layout    |-> IF v = "borderless" THEN layoutValue(v) ELSE p.layout,
     images    |-> images]

\* link.click() on the payload: the browser stores the file; project is the
\* project the call was started on
jsonFile(v, p, images) ==
    [project |-> p, text |-> JSONstringify(exportedProject(v, p, images))]

\* a file the user picks whose text is the JSON text of content
fileOf(content) == [text |-> JSONstringify(content)]

\* the sequence without its j-th element
without(sequence, j) ==
    SubSeq(sequence, 1, j - 1) \o SubSeq(sequence, j + 1, Len(sequence))

\* a click on the export button, which no flag disables:
\* handleExportProject up to its first await; without images it runs to
\* its end
handleExportProject ==
    /\ project # NoProject
    /\ IF project.images = <<>>
       THEN /\ downloaded' = Append(downloaded, jsonFile(variant, project, <<>>))
            /\ UNCHANGED fileJobs
       ELSE /\ fileJobs' = [fileJobs EXCEPT !.exports =
                   Append(@, [project |-> project, images |-> <<>>])]
            /\ UNCHANGED downloaded
    /\ UNCHANGED <<variant, project, nextId, storeVars, exportVars,
                   previewUrlsRef, objectUrls, mounted, activeStep,
                   cropBatch>>

\* await blobToBase64(image.blob) of one of the running calls settles: the
\* entry is pushed and after the last image the file is written, or the
\* reader has failed and the call is rejected
blobToBase64Settled ==
    /\ \E j \in 1..Len(fileJobs.exports), read \in BOOLEAN :
         LET call   == fileJobs.exports[j]
             image  == call.project.images[Len(call.images) + 1]
             images == Append(call.images,
                              exportedImage(image, blobToBase64(image.blob)))
         IN  IF ~read
             THEN /\ fileJobs' = [fileJobs EXCEPT !.exports = without(@, j)]
                  /\ UNCHANGED downloaded
             ELSE IF Len(images) = Len(call.project.images)
             THEN /\ downloaded' = Append(downloaded,
                         jsonFile(variant, call.project, images))
                  /\ fileJobs' = [fileJobs EXCEPT !.exports = without(@, j)]
             ELSE /\ fileJobs' = [fileJobs EXCEPT !.exports[j].images = images]
                  /\ UNCHANGED downloaded
    /\ UNCHANGED <<variant, project, nextId, storeVars, exportVars,
                   previewUrlsRef, objectUrls, mounted, activeStep,
                   cropBatch>>

\* the image handleImportProject restores from an entry of the file
restoredImage(image) ==
    [id   |-> image.id,
     name |-> image.name,
     type |-> image.type,
     size |-> Len(base64ToBlob(image.data, image.type).bytes),
     blob |-> base64ToBlob(image.data, image.type),
     crop |-> IF "crop" \in DOMAIN image THEN image.crop ELSE NoCrop]

\* the project handleImportProject restores from the parsed file
restored(v, imported, uuid, now) ==
    [id        |-> IF "id" \in DOMAIN imported THEN imported.id ELSE uuid,
     name      |-> IF "name" \in DOMAIN imported THEN imported.name
                   ELSE "Importiertes Projekt",
     createdAt |-> IF "createdAt" \in DOMAIN imported THEN imported.createdAt
                   ELSE now,
     note      |-> IF "note" \in DOMAIN imported THEN imported.note ELSE "",
     layout    |-> IF v = "borderless"
                   THEN IF "layout" \in DOMAIN imported
                           /\ imported.layout \in layoutOptions(v)
                        THEN imported.layout ELSE layoutValue(v)
                   ELSE IF "layout" \in DOMAIN imported
                        THEN imported.layout ELSE 4,
     images    |-> [k \in 1..Len(imported.images) |->
                       restoredImage(imported.images[k])]]

\* the user picks a file: handleImportProject(file) up to await file.text()
handleImportProject(file) ==
    /\ fileJobs' = [fileJobs EXCEPT !.imports = Append(@, file.text)]
    /\ UNCHANGED <<variant, project, nextId, storeVars, exportVars,
                   downloaded, previewUrlsRef, objectUrls, mounted,
                   activeStep, cropBatch>>

\* atob accepts the data of every image of the file with this text
decodable(text) ==
    \A k \in 1..Len(JSONparse(text).images) :
        isBase64(JSONparse(text).images[k].data)

\* await file.text() of one of the running calls settles: the text is
\* parsed, every image is decoded and saveProject(restored) is called,
\* whether the component is still mounted or not; the file that cannot be
\* read and atob throwing for the data of an image reject the call
fileTextSettled ==
    /\ \E j \in 1..Len(fileJobs.imports), read \in BOOLEAN :
         LET imported == JSONparse(fileJobs.imports[j])
         IN  /\ fileJobs' = [fileJobs EXCEPT !.imports = without(@, j)]
             /\ IF read /\ decodable(fileJobs.imports[j])
                THEN /\ pending' = saveProject(pending,
                            restored(variant, imported, nextId, nextId),
                            "import")
                     /\ nextId' = IF "id" \in DOMAIN imported THEN nextId
                                  ELSE nextId + 1
                ELSE UNCHANGED <<pending, nextId>>
    /\ UNCHANGED <<variant, project, isLoading, load, store, exportVars,
                   downloaded, previewUrlsRef, objectUrls, mounted,
                   activeStep, cropBatch>>

-----------------------------------------------------------------------------
(* handleExportPdf, one action per stretch between two awaits *)

\* no handleExportPdf call is between its first and its last statement
Settled == pc \in {"idle", "returned", "done", "failed"}

\* the images of the page being filled
currentSlice ==
    slice(job.images, index, cardsPerPage(variant, job.project.layout))

\* page = pdfDoc.addPage([...])
newPage ==
    [width  |-> mmToPt(pageWidthMm(variant, job.project.layout)),
     height |-> mmToPt(pageHeightMm(variant, job.project.layout)),
     tiles  |-> <<>>]

\* drawnTile reading the template from the project as it is when the card is
\* drawn
drawnTileLive(image, blob, i) ==
    LET layout == project.layout
    IN  [image  |-> image,
         row    |-> row(variant, layout, i),
         col    |-> col(variant, layout, i),
         xMm    |-> xMm(variant, layout, i),
         yMm    |-> yMm(variant, layout, i),
         sizeMm |-> cardSizeMm(variant, layout),
         x      |-> mmToPt(xMm(variant, layout, i)),
         y      |-> mmToPt(yMm(variant, layout, i)),
         width  |-> mmToPt(cardSizeMm(variant, layout)),
         height |-> mmToPt(cardSizeMm(variant, layout)),
         raster |-> [width |-> blob.width, height |-> blob.height,
                     area |-> blob.area, rotation |-> blob.rotation,
                     painted |-> blob.source.painted]]

\* the placement page.drawImage(embedded, {...}) makes for card i of the page
drawnTile(image, blob, i) ==
    LET layout == job.project.layout
    IN  [image  |-> image,
         row    |-> row(variant, layout, i),
         col    |-> col(variant, layout, i),
         xMm    |-> xMm(variant, layout, i),
         yMm    |-> yMm(variant, layout, i),
         sizeMm |-> cardSizeMm(variant, layout),
         x      |-> mmToPt(xMm(variant, layout, i)),
         y      |-> mmToPt(yMm(variant, layout, i)),
         width  |-> mmToPt(cardSizeMm(variant, layout)),
         height |-> mmToPt(cardSizeMm(variant, layout)),
         raster |-> [width |-> blob.width, height |-> blob.height,
                     area |-> blob.area, rotation |-> blob.rotation,
                     painted |-> blob.source.painted]]

\* pageLoop starting the rendering of all cards of the new page at once
pageLoopEager(doc, i) ==
    IF i < Len(job.images)
    THEN /\ pdfDoc' = Append(doc, newPage)
         /\ index' = i
         /\ cardIndex' = 0
         /\ renderCalls' = renderCalls + Len(slice(job.images, i,
                cardsPerPage(variant, job.project.layout)))
         /\ pc' = "render"
    ELSE /\ pdfDoc' = doc
         /\ index' = i
         /\ UNCHANGED <<cardIndex, renderCalls>>
         /\ pc' = "save"

\* head of the page loop with index = i: add a page and start rendering its
\* first card, or leave the loop and call pdfDoc.save()
pageLoop(doc, i) ==
    IF i < Len(job.images)
    THEN /\ pdfDoc' = Append(doc, newPage)
         /\ index' = i
         /\ cardIndex' = 0
         /\ renderCalls' = renderCalls + 1
         /\ pc' = "render"
    ELSE /\ pdfDoc' = doc
         /\ index' = i
         /\ UNCHANGED <<cardIndex, renderCalls>>
         /\ pc' = "save"

\* end of the body of the card loop: next card of the page, or next page
cardLoop(doc) ==
    IF cardIndex + 1 < Len(currentSlice)
    THEN /\ pdfDoc' = doc
         /\ cardIndex' = cardIndex + 1
         /\ renderCalls' = renderCalls + 1
         /\ pc' = "render"
         /\ UNCHANGED index
    ELSE pageLoop(doc, index + cardsPerPage(variant, job.project.layout))

\* abort with the error caught inside the card loop: the card is skipped
abortSwallowed(error) ==
    /\ cardLoop(pdfDoc)
    /\ UNCHANGED <<variant, project, nextId, isExportingPdf, job, croppedBlob,
                   exportsStarted, downloads, failure, errorMessages>>

\* abort without the finally block
abortKeepingFlag(error) ==
    /\ failure' = error
    /\ pc' = "failed"
    /\ UNCHANGED <<variant, project, nextId, isExportingPdf, job, index,
                   cardIndex, pdfDoc, croppedBlob, renderCalls, exportsStarted,
                   downloads, errorMessages>>

\* an await inside the try block rejects: the finally block runs and the
\* handler's promise is rejected; setIsExportingPdf(false) has no effect on
\* a component that was torn down
abort(error) ==
    /\ failure' = error
    /\ isExportingPdf' = IF mounted THEN FALSE ELSE isExportingPdf
    /\ pc' = "failed"
    /\ UNCHANGED <<variant, project, nextId, job, index, cardIndex, pdfDoc,
                   croppedBlob, renderCalls, exportsStarted, downloads,
                   errorMessages>>

\* handleExportPdf from setIsExportingPdf(true) up to the first await.  The
\* template is destructured inside the try block: for a layout that
\* layoutConfig does not define this throws a TypeError, the finally block
\* clears the flag before the component is rendered again and the handler's
\* promise is rejected.
exportStarted ==
    /\ exportsStarted' = exportsStarted + 1
    /\ pdfDoc' = <<>>
    /\ croppedBlob' = NoBlob
    /\ index' = 0
    /\ cardIndex' = 0
    /\ renderCalls' = 0
    /\ IF layoutConfig(variant, project.layout) = Undefined
       THEN /\ isExportingPdf' = FALSE
            /\ job' = [project |-> project, images |-> <<>>]
            /\ failure' = "TypeError"
            /\ pc' = "failed"
       ELSE /\ isExportingPdf' = TRUE
            /\ job' = [project |-> project,
                       images  |-> pairedImages(project.images)]
            /\ failure' = "none"
            /\ pc' = "create"
    /\ UNCHANGED <<variant, project, nextId, downloads, errorMessages>>

\* handleExportPdf without the test for an empty image list
handleExportPdfUnguarded ==
    /\ ~isExportingPdf
    /\ exportStarted

\* a click on the export button, which is disabled while isExportingPdf is
\* set: a call of handleExportPdf, up to await PDFDocument.create()
handleExportPdf ==
    /\ ~isExportingPdf
    /\ IF project.images = <<>>
       THEN /\ pc' = "returned"
            /\ UNCHANGED <<variant, project, nextId, isExportingPdf, job, index,
                           cardIndex, pdfDoc, croppedBlob, renderCalls,
                           exportsStarted, downloads, failure, errorMessages>>
       ELSE exportStarted

\* documentCreated adding the pages to a document that is created once and
\* shared by all exports
documentCreatedShared ==
    /\ pc = "create"
    /\ \E created \in BOOLEAN :
         IF created
         THEN /\ pageLoop(IF downloaded = <<>> THEN <<>>
                          ELSE downloaded[Len(downloaded)].doc, 0)
              /\ UNCHANGED <<variant, project, nextId, isExportingPdf, job,
                             croppedBlob, exportsStarted, downloads, failure,
                             errorMessages>>
         ELSE abort("DocumentCreationFailed")

\* await PDFDocument.create() settles; the document has no page; first page
\* and first renderCroppedImage call
documentCreated ==
    /\ pc = "create"
    /\ \E created \in BOOLEAN :
         IF created
         THEN /\ pageLoop(<<>>, 0)
              /\ UNCHANGED <<variant, project, nextId, isExportingPdf, job,
                             croppedBlob, exportsStarted, downloads, failure,
                             errorMessages>>
         ELSE abort("DocumentCreationFailed")

\* await renderCroppedImage(image, cardSizePx) settles
renderSettled ==
    /\ pc = "render"
    /\ \E env \in RenderEnvs :
         LET blob == renderCroppedImage(currentSlice[cardIndex + 1],
                         cardSizePx(variant, job.project.layout), env)
         IN  IF blob.status = "ok"
             THEN /\ croppedBlob' = blob
                  /\ pc' = "arrayBuffer"
                  /\ UNCHANGED <<variant, project, nextId, isExportingPdf, job,
                                 index, cardIndex, pdfDoc, renderCalls,
                                 exportsStarted, downloads, failure,
                                 errorMessages>>
             ELSE abort(blob.status)

\* await croppedBlob.arrayBuffer() settles
arrayBufferSettled ==
    /\ pc = "arrayBuffer"
    /\ \E read \in BOOLEAN :
         IF read
         THEN /\ pc' = "embed"
              /\ UNCHANGED <<variant, project, nextId, isExportingPdf, job,
                             index, cardIndex, pdfDoc, croppedBlob, renderCalls,
                             exportsStarted, downloads, failure, errorMessages>>
         ELSE abort("BlobReadFailed")

\* await pdfDoc.embedPng(imageBytes) settles; page.drawImage and loop on
embedSettled ==
    /\ pc = "embed"
    /\ \E embedded \in BOOLEAN :
         IF embedded
         THEN /\ cardLoop([pdfDoc EXCEPT ![Len(pdfDoc)].tiles =
                     Append(@, drawnTile(currentSlice[cardIndex + 1],
                                         croppedBlob, cardIndex))])
              /\ croppedBlob' = NoBlob
              /\ UNCHANGED <<variant, project, nextId, isExportingPdf, job,
                             exportsStarted, downloads, failure, errorMessages>>
         ELSE abort("EmbeddingFailed")

\* await pdfDoc.save() settles; link.click(); finally
saveSettled ==
    /\ pc = "save"
    /\ \E saved \in BOOLEAN :
         IF saved
         THEN /\ downloads' = downloads + 1
              /\ isExportingPdf' = IF mounted THEN FALSE ELSE isExportingPdf
              /\ pc' = "done"
              /\ UNCHANGED <<variant, project, nextId, job, index, cardIndex,
                             pdfDoc, croppedBlob, renderCalls, exportsStarted,
                             failure, errorMessages>>
         ELSE abort("SerializationFailed")

\* The export of a project with images added and the template changed at
\* any moment, each change followed by the effects of its render and by
\* the commits of its save.  The downloaded files are not kept.
Next ==
    \/ \E count \in 1..MaxBatch :
           /\ Editing(MaxEdits)
           /\ handleAddImages(count) /\ rendered /\ UNCHANGED <<downloaded, otherUi>>
    \/ \E layout \in layoutOptions(variant) :
           /\ Editing(MaxEdits)
           /\ handleLayoutChange(layout) /\ rendered /\ UNCHANGED <<downloaded, otherUi>>
    \/ /\ exportsStarted < MaxExports
       /\ handleExportPdf
       /\ UNCHANGED <<storeVars, downloaded, uiVars>>
    \/ documentCreated /\ UNCHANGED <<storeVars, downloaded, uiVars>>
    \/ renderSettled /\ UNCHANGED <<storeVars, downloaded, uiVars>>
    \/ arrayBufferSettled /\ UNCHANGED <<storeVars, downloaded, uiVars>>
    \/ embedSettled /\ UNCHANGED <<storeVars, downloaded, uiVars>>
    \/ saveSettled /\ UNCHANGED <<storeVars, downloaded, uiVars>>
    \/ projectsPutSettled
    \/ metaPutShown

Spec == InitLoaded /\ [][Next]_vars

-----------------------------------------------------------------------------
(* A project restored from the store or from an imported file, holding one *)
(* image whose crop state was supplied from outside                        *)

SuppliedX == {-50, 0, 50, 1000}
SuppliedY == {-20, 0}
SuppliedWidth == {-100, 0, 300, 5000}
SuppliedHeight == {-1, 0, 300}
SuppliedRotation == {0, 45, 90}

SuppliedCrops ==
    { [x |-> 0, y |-> 0, zoom |-> 1 * ZoomScale, rotation |-> r,
       cropAreaPixels |-> [x |-> ax * PxScale, y |-> ay * PxScale,
                           width |-> aw * PxScale, height |-> ah * PxScale]] :
        r \in SuppliedRotation, ax \in SuppliedX, ay \in SuppliedY,
        aw \in SuppliedWidth, ah \in SuppliedHeight }

InitRender ==
    /\ variant \in Variants
    /\ \E id \in 1..3, crop \in SuppliedCrops :
         project = [createEmptyProject(variant, 0, 0) EXCEPT !.images =
                        <<[id |-> id, blob |-> uploadedBlob(id),
                           crop |-> crop]>>]
    /\ nextId = 4
    /\ isLoading = FALSE
    /\ load = Loaded
    /\ store = storeOf(project)
    /\ pending = NoPending
    /\ downloaded = <<>>
    /\ fileJobs = NoFileJobs
    /\ previewUrlsRef = previewOf(project)
    /\ objectUrls = [created |-> createdFor(project), revoked |-> {}]
    /\ mounted = TRUE
    /\ activeStep = 0
    /\ cropBatch = NoJob
    /\ isExportingPdf = FALSE
    /\ pc = "idle"
    /\ job = NoJob
    /\ index = 0
    /\ cardIndex = 0
    /\ pdfDoc = <<>>
    /\ croppedBlob = NoBlob
    /\ renderCalls = 0
    /\ exportsStarted = 0
    /\ downloads = 0
    /\ failure = "none"
    /\ errorMessages = <<>>

NextRender ==
    \/ /\ exportsStarted < MaxExports
       /\ handleExportPdf
       /\ UNCHANGED <<storeVars, downloaded, uiVars>>
    \/ documentCreated /\ UNCHANGED <<storeVars, downloaded, uiVars>>
    \/ renderSettled /\ UNCHANGED <<storeVars, downloaded, uiVars>>
    \/ arrayBufferSettled /\ UNCHANGED <<storeVars, downloaded, uiVars>>
    \/ embedSettled /\ UNCHANGED <<storeVars, downloaded, uiVars>>
    \/ saveSettled /\ UNCHANGED <<storeVars, downloaded, uiVars>>

SpecRender == InitRender /\ [][NextRender]_vars

-----------------------------------------------------------------------------
(* A project holding one image that was just added, of any natural size,   *)
(* turned with the rotation slider of its tile and exported before the     *)
(* Cropper has reported a crop rectangle                                   *)

NaturalSizes ==
    {[width |-> w, height |-> h] : w, h \in 1..MaxSide}
        \cup {[width |-> 400, height |-> 300]}

\* positions of the rotation slider (min -180, max 180, step 1): the
\* quarter turns and one between
RotationUpdates == {[rotation |-> r] : r \in {-90, 0, 45, 90, 180}}

InitCrop ==
    /\ variant \in Variants
    /\ \E blob \in NaturalSizes :
         project = [createEmptyProject(variant, 0, 0) EXCEPT !.images =
                        <<[id |-> 1, blob |-> blob, crop |-> defaultCrop]>>]
    /\ nextId = 2
    /\ isLoading = FALSE
    /\ load = Loaded
    /\ store = storeOf(project)
    /\ pending = NoPending
    /\ downloaded = <<>>
    /\ fileJobs = NoFileJobs
    /\ previewUrlsRef = previewOf(project)
    /\ objectUrls = [created |-> createdFor(project), revoked |-> {}]
    /\ mounted = TRUE
    /\ activeStep = 0
    /\ cropBatch = NoJob
    /\ isExportingPdf = FALSE
    /\ pc = "idle"
    /\ job = NoJob
    /\ index = 0
    /\ cardIndex = 0
    /\ pdfDoc = <<>>
    /\ croppedBlob = NoBlob
    /\ renderCalls = 0
    /\ exportsStarted = 0
    /\ downloads = 0
    /\ failure = "none"
    /\ errorMessages = <<>>

NextCrop ==
    \/ \E cropUpdate \in RotationUpdates :
           /\ Editing(MaxEdits)
           /\ handleCropUpdate(1, cropUpdate) /\ rendered /\ UNCHANGED <<downloaded, otherUi>>
    \/ /\ exportsStarted < MaxExports
       /\ handleExportPdf
       /\ UNCHANGED <<storeVars, downloaded, uiVars>>
    \/ documentCreated /\ UNCHANGED <<storeVars, downloaded, uiVars>>
    \/ renderSettled /\ UNCHANGED <<storeVars, downloaded, uiVars>>
    \/ arrayBufferSettled /\ UNCHANGED <<storeVars, downloaded, uiVars>>
    \/ embedSettled /\ UNCHANGED <<storeVars, downloaded, uiVars>>
    \/ saveSettled /\ UNCHANGED <<storeVars, downloaded, uiVars>>
    \/ projectsPutSettled
    \/ metaPutShown

SpecCrop == InitCrop /\ [][NextCrop]_vars

-----------------------------------------------------------------------------
(* A stored project exported again and again, every downloaded file kept   *)
(* together with the project it was made from                              *)

\* crop states of the first image: untouched, turned, cropped by the Cropper
PlanCrops ==
    {defaultCrop,
     spread(defaultCrop, [rotation |-> 90]),
     spread(defaultCrop, [cropAreaPixels |->
         [x |-> 10 * PxScale, y |-> 20 * PxScale,
          width |-> 50 * PxScale, height |-> 50 * PxScale]])}

InitTwice ==
    /\ variant \in Variants
    /\ \E n \in 1..MaxPlanImages, layout \in layoutOptions(variant),
          crop \in PlanCrops :
         project = [createEmptyProject(variant, 0, 0) EXCEPT
                        !.layout = layout,
                        !.images = [k \in 1..n |->
                            [id |-> k, blob |-> uploadedBlob(k),
                             crop |-> IF k = 1 THEN crop ELSE defaultCrop]]]
    /\ nextId = MaxPlanImages + 1
    /\ isLoading = FALSE
    /\ load = Loaded
    /\ store = storeOf(project)
    /\ pending = NoPending
    /\ downloaded = <<>>
    /\ fileJobs = NoFileJobs
    /\ previewUrlsRef = previewOf(project)
    /\ objectUrls = [created |-> createdFor(project), revoked |-> {}]
    /\ mounted = TRUE
    /\ activeStep = 0
    /\ cropBatch = NoJob
    /\ isExportingPdf = FALSE
    /\ pc = "idle"
    /\ job = NoJob
    /\ index = 0
    /\ cardIndex = 0
    /\ pdfDoc = <<>>
    /\ croppedBlob = NoBlob
    /\ renderCalls = 0
    /\ exportsStarted = 0
    /\ downloads = 0
    /\ failure = "none"
    /\ errorMessages = <<>>

\* link.click(): the browser stores the document
fileKept ==
    downloaded' = IF downloads' = downloads THEN downloaded
                  ELSE Append(downloaded,
                              [project |-> job.project, doc |-> pdfDoc])

NextTwice ==
    \/ \E layout \in layoutOptions(variant) :
           /\ Editing(MaxEdits)
           /\ handleLayoutChange(layout) /\ rendered /\ UNCHANGED <<downloaded, otherUi>>
    \/ /\ exportsStarted < MaxPlanExports
       /\ handleExportPdf
       /\ UNCHANGED <<storeVars, downloaded, uiVars>>
    \/ documentCreated /\ UNCHANGED <<storeVars, downloaded, uiVars>>
    \/ renderSettled /\ UNCHANGED <<storeVars, downloaded, uiVars>>
    \/ arrayBufferSettled /\ UNCHANGED <<storeVars, downloaded, uiVars>>
    \/ embedSettled /\ UNCHANGED <<storeVars, downloaded, uiVars>>
    \/ saveSettled /\ fileKept /\ UNCHANGED <<storeVars, uiVars>>
    \/ projectsPutSettled
    \/ metaPutShown

SpecTwice == InitTwice /\ [][NextTwice]_vars

\* Exports of a project, one after the other, and the component torn down
\* at any moment: the button is clicked only while the component is mounted
NextTeardown ==
    \/ /\ mounted
       /\ exportsStarted < MaxPlanExports
       /\ handleExportPdf
       /\ UNCHANGED <<storeVars, downloaded, uiVars>>
    \/ documentCreated /\ UNCHANGED <<storeVars, downloaded, uiVars>>
    \/ renderSettled /\ UNCHANGED <<storeVars, downloaded, uiVars>>
    \/ arrayBufferSettled /\ UNCHANGED <<storeVars, downloaded, uiVars>>
    \/ embedSettled /\ UNCHANGED <<storeVars, downloaded, uiVars>>
    \/ saveSettled /\ fileKept /\ UNCHANGED <<storeVars, uiVars>>
    \/ unmount

SpecTeardown == InitTwice /\ [][NextTeardown]_vars

-----------------------------------------------------------------------------
(* A stored or imported project being edited.  Its images may come with a  *)
(* crop state that lacks fields, or with none.                             *)

StoredCrops == {NoCrop, [rotation |-> 90]}

Names == {"Neues Projekt", "Tiere"}
Notes == {"", "Notiz"}

\* what the Cropper reports by onCropChange
CropUpdates == {[x |-> 5, y |-> -3]}

\* what the Cropper reports by onCropComplete
CropAreas == {[x |-> 10 * PxScale, y |-> 20 * PxScale,
               width |-> 50 * PxScale, height |-> 50 * PxScale]}

\* the ids of the images of the project
imageIds(p) == {p.images[k].id : k \in 1..Len(p.images)}

\* the images of project p that image.id === id selects, in project order
imagesOf(p, id) == SelectSeq(p.images, LAMBDA image : image.id = id)

InitEdit ==
    /\ variant \in Variants
    /\ \E n \in 0..MaxEditImages :
         \E crops \in [1..n -> StoredCrops] :
             project = [createEmptyProject(variant, 0, 0) EXCEPT !.images =
                           [k \in 1..n |->
                               [id |-> k, blob |-> uploadedBlob(k),
                                crop |-> crops[k]]]]
    /\ nextId = Len(project.images) + 1
    /\ isLoading = FALSE
    /\ load = Loaded
    /\ store = storeOf(project)
    /\ pending = NoPending
    /\ downloaded = <<>>
    /\ fileJobs = NoFileJobs
    /\ previewUrlsRef = previewOf(project)
    /\ objectUrls = [created |-> createdFor(project), revoked |-> {}]
    /\ mounted = TRUE
    /\ activeStep = 0
    /\ cropBatch = NoJob
    /\ isExportingPdf = FALSE
    /\ pc = "idle"
    /\ job = NoJob
    /\ index = 0
    /\ cardIndex = 0
    /\ pdfDoc = <<>>
    /\ croppedBlob = NoBlob
    /\ renderCalls = 0
    /\ exportsStarted = 0
    /\ downloads = 0
    /\ failure = "none"
    /\ errorMessages = <<>>

NextEdit ==
    \/ /\ Editing(MaxLiveEdits)
       /\ nextId <= MaxEditImages
       /\ handleAddImages(1) /\ rendered /\ UNCHANGED <<downloaded, otherUi>>
    \/ \E value \in Names :
           /\ Editing(MaxLiveEdits)
           /\ handleNameChange(value) /\ rendered /\ UNCHANGED <<downloaded, otherUi>>
    \/ /\ Editing(MaxLiveEdits)
       /\ \E id \in imageIds(project) :
              handleRemoveImage(id) /\ rendered /\ UNCHANGED <<downloaded, otherUi>>
    \/ /\ Editing(MaxLiveEdits)
       /\ \E id \in imageIds(project), cropUpdate \in CropUpdates :
              handleCropUpdate(id, cropUpdate) /\ rendered /\ UNCHANGED <<downloaded, otherUi>>
    \/ /\ Editing(MaxLiveEdits)
       /\ \E id \in imageIds(project), cropAreaPixels \in CropAreas :
              handleCropComplete(id, cropAreaPixels) /\ rendered /\ UNCHANGED <<downloaded, otherUi>>
    \/ /\ Editing(MaxLiveEdits)
       /\ \E id \in imageIds(project) :
              onInteractionStart(id) /\ rendered /\ UNCHANGED <<downloaded, otherUi>>
    \/ projectsPutSettled
    \/ metaPutShown

SpecEdit == InitEdit /\ [][NextEdit]_vars

-----------------------------------------------------------------------------
(* A project that is edited while its first export runs: the handlers are  *)
(* called only while isExportingPdf is set                                 *)

\* the rotation slider moved to 90
LiveUpdates == {[rotation |-> 90]}

InitLive ==
    /\ variant \in Variants
    /\ \E n \in 1..MaxLiveImages, layout \in layoutOptions(variant) :
         project = [createEmptyProject(variant, 0, 0) EXCEPT
                       !.layout = layout,
                       !.images = [k \in 1..n |-> newImage(k)]]
    /\ nextId = Len(project.images) + 1
    /\ isLoading = FALSE
    /\ load = Loaded
    /\ store = storeOf(project)
    /\ pending = NoPending
    /\ downloaded = <<>>
    /\ fileJobs = NoFileJobs
    /\ previewUrlsRef = previewOf(project)
    /\ objectUrls = [created |-> createdFor(project), revoked |-> {}]
    /\ mounted = TRUE
    /\ activeStep = 0
    /\ cropBatch = NoJob
    /\ isExportingPdf = FALSE
    /\ pc = "idle"
    /\ job = NoJob
    /\ index = 0
    /\ cardIndex = 0
    /\ pdfDoc = <<>>
    /\ croppedBlob = NoBlob
    /\ renderCalls = 0
    /\ exportsStarted = 0
    /\ downloads = 0
    /\ failure = "none"
    /\ errorMessages = <<>>

NextLive ==
    \/ /\ isExportingPdf /\ Editing(MaxLiveEdits)
       /\ nextId <= MaxLiveImages
       /\ handleCreateNew /\ rendered /\ UNCHANGED <<downloaded, otherUi>>
    \/ /\ isExportingPdf /\ Editing(MaxLiveEdits)
       /\ nextId <= MaxLiveImages
       /\ handleAddImages(1) /\ rendered /\ UNCHANGED <<downloaded, otherUi>>
    \/ \E layout \in layoutOptions(variant) :
           /\ isExportingPdf /\ Editing(MaxLiveEdits)
           /\ handleLayoutChange(layout) /\ rendered /\ UNCHANGED <<downloaded, otherUi>>
    \/ /\ isExportingPdf /\ Editing(MaxLiveEdits)
       /\ \E id \in imageIds(project) :
              handleRemoveImage(id) /\ rendered /\ UNCHANGED <<downloaded, otherUi>>
    \/ /\ isExportingPdf /\ Editing(MaxLiveEdits)
       /\ \E id \in imageIds(project), cropUpdate \in LiveUpdates :
              handleCropUpdate(id, cropUpdate) /\ rendered /\ UNCHANGED <<downloaded, otherUi>>
    \/ /\ exportsStarted = 0
       /\ handleExportPdf
       /\ UNCHANGED <<storeVars, downloaded, uiVars>>
    \/ documentCreated /\ UNCHANGED <<storeVars, downloaded, uiVars>>
    \/ renderSettled /\ UNCHANGED <<storeVars, downloaded, uiVars>>
    \/ arrayBufferSettled /\ UNCHANGED <<storeVars, downloaded, uiVars>>
    \/ embedSettled /\ UNCHANGED <<storeVars, downloaded, uiVars>>
    \/ saveSettled /\ UNCHANGED <<storeVars, downloaded, uiVars>>
    \/ projectsPutSettled
    \/ metaPutShown

SpecLive == InitLive /\ [][NextLive]_vars

-----------------------------------------------------------------------------
(* The component is mounted on a store of any content and loads a project *)

\* the tables of the store: projects of some of the ids 1..MaxStored and
\* the project of an imported file with the id "", each created at some
\* time, and at most one lastProjectId entry, which may name a project that
\* is not stored (the id 0 never is)
Stores ==
    UNION {
        {[projects |-> {createEmptyProject(v, id, createdAt[id]) : id \in ids},
          meta     |-> {[key |-> "lastProjectId", value |-> id] : id \in last}]
             : createdAt \in [ids -> 1..MaxStored],
               last \in {{}} \cup {{id} : id \in EmptyId..MaxStored},
               v \in {variant}}
        : ids \in SUBSET ({EmptyId} \cup 1..MaxStored)}

Mounting == [pc |-> "getLastProjectId", lastProjectId |-> {}, loaded |-> {}]

InitLoad ==
    /\ variant \in Variants
    /\ project = NoProject
    /\ nextId = MaxStored + 1
    /\ isLoading = TRUE
    /\ load = Mounting
    /\ store \in Stores
    /\ pending = NoPending
    /\ downloaded = <<>>
    /\ fileJobs = NoFileJobs
    /\ previewUrlsRef = previewOf(project)
    /\ objectUrls = [created |-> createdFor(project), revoked |-> {}]
    /\ mounted = TRUE
    /\ activeStep = 0
    /\ cropBatch = NoJob
    /\ isExportingPdf = FALSE
    /\ pc = "idle"
    /\ job = NoJob
    /\ index = 0
    /\ cardIndex = 0
    /\ pdfDoc = <<>>
    /\ croppedBlob = NoBlob
    /\ renderCalls = 0
    /\ exportsStarted = 0
    /\ downloads = 0
    /\ failure = "none"
    /\ errorMessages = <<>>

NextLoad ==
    \/ getLastProjectIdSettled
    \/ getProjectSettled /\ shown(activeStep) /\ UNCHANGED otherUi
    \/ getMostRecentProjectSettled /\ shown(activeStep) /\ UNCHANGED otherUi
    \/ projectsPutSettled
    \/ metaPutShown
    \/ unmount

SpecLoad == InitLoad /\ [][NextLoad]_vars

-----------------------------------------------------------------------------
(* The component is mounted, loads a project and the user changes it *)

\* parsed project files: one without any field but images, one exported
\* from the project with id 0
ImportedFiles ==
    {[images |-> <<>>],
     [id |-> 0, name |-> "Tiere", createdAt |-> 0, note |-> "Notiz",
      layout |-> 6, images |-> <<>>]}

InitStore ==
    /\ variant \in Variants
    /\ project = NoProject
    /\ nextId = 1
    /\ isLoading = TRUE
    /\ load = Mounting
    /\ store \in {[projects |-> {}, meta |-> {}],
                   storeOf(createEmptyProject(variant, 0, 0))}
    /\ pending = NoPending
    /\ downloaded = <<>>
    /\ fileJobs = NoFileJobs
    /\ previewUrlsRef = previewOf(project)
    /\ objectUrls = [created |-> createdFor(project), revoked |-> {}]
    /\ mounted = TRUE
    /\ activeStep = 0
    /\ cropBatch = NoJob
    /\ isExportingPdf = FALSE
    /\ pc = "idle"
    /\ job = NoJob
    /\ index = 0
    /\ cardIndex = 0
    /\ pdfDoc = <<>>
    /\ croppedBlob = NoBlob
    /\ renderCalls = 0
    /\ exportsStarted = 0
    /\ downloads = 0
    /\ failure = "none"
    /\ errorMessages = <<>>

NextStore ==
    \/ getLastProjectIdSettled
    \/ getProjectSettled /\ shown(activeStep) /\ UNCHANGED otherUi
    \/ getMostRecentProjectSettled /\ shown(activeStep) /\ UNCHANGED otherUi
    \/ projectsPutSettled
    \/ metaPutShown
    \/ /\ Editable
       /\ handleCreateNew /\ rendered /\ UNCHANGED <<downloaded, otherUi>>
    \/ \E value \in Names :
           /\ Editable
           /\ handleNameChange(value) /\ rendered /\ UNCHANGED <<downloaded, otherUi>>
    \/ \E value \in Notes :
           /\ Editable
           /\ handleNoteChange(value) /\ rendered /\ UNCHANGED <<downloaded, otherUi>>
    \/ \E layout \in layoutOptions(variant) :
           /\ Editable
           /\ handleLayoutChange(layout) /\ rendered /\ UNCHANGED <<downloaded, otherUi>>
    \/ /\ Editable
       /\ handleAddImages(1) /\ rendered /\ UNCHANGED <<downloaded, otherUi>>
    \/ /\ Editable
       /\ \E id \in imageIds(project) :
              handleRemoveImage(id) /\ rendered /\ UNCHANGED <<downloaded, otherUi>>
    \/ /\ Editable
       /\ \E id \in imageIds(project), cropUpdate \in LiveUpdates :
              /\ handleCropUpdate(id, cropUpdate) /\ rendered /\ UNCHANGED <<downloaded, otherUi>>
    \/ \E imported \in ImportedFiles :
           /\ Editable
           /\ pending.started + Len(fileJobs.imports) + 1 < MaxSaves
           /\ handleImportProject(fileOf(imported))
    \/ fileTextSettled

SpecStore == InitStore /\ [][NextStore]_vars

-----------------------------------------------------------------------------
(* A project with uploaded image files is exported to project files, which *)
(* are imported again                                                      *)

ByteValues == {0, 77, 255}

\* the contents of an uploaded file
FileBytes == UNION {[1..n -> ByteValues] : n \in 0..MaxBytes}

\* crop states of an image: none, one without cropAreaPixels, one with
JsonCrops ==
    {NoCrop,
     defaultCrop,
     spread([x |-> 5, y |-> -3, zoom |-> 2 * ZoomScale, rotation |-> 90],
            [cropAreaPixels |-> [x |-> 10 * PxScale, y |-> 20 * PxScale,
                                 width |-> 50 * PxScale,
                                 height |-> 50 * PxScale]])}

\* the image handleAddImages makes of an uploaded file: a file the browser
\* gives a type, and one it gives none, whose type normalizeImageType takes
\* from its extension; the component with page margins adds only files with
\* a type of acceptedTypes, so there the second file has its type too
uploadedImage(v, id, bytes, crop) ==
    [id   |-> id,
     name |-> IF id % 2 = 1 THEN "katze.png" ELSE "hund.jpg",
     type |-> IF id % 2 = 1 THEN imagePng ELSE imageJpeg,
     size |-> Len(bytes),
     blob |-> [bytes |-> bytes,
               type |-> IF id % 2 = 1 THEN imagePng
                        ELSE IF v = "borderless" THEN <<>> ELSE imageJpeg],
     crop |-> crop]

\* project files written by hand: the type of the image is in upper case,
\* or it holds a comma
HandMadeFiles ==
    {[id |-> 0, name |-> "Meine Tiere", createdAt |-> 0, note |-> "Notiz",
      layout |-> 4,
      images |-> <<[id |-> 1, name |-> "katze.png", type |-> type,
                    crop |-> defaultCrop,
                    data |-> blobToBase64([bytes |-> <<1, 2>>,
                                           type |-> imagePng])]>>]
        : type \in {imagePngUpperCase, imagePngCommaX}}

\* the project was made of uploaded files, or it was imported from a file
\* written by hand
InitJson ==
    /\ variant \in Variants
    /\ \/ \E n \in 0..2, bytes \in FileBytes, crop \in JsonCrops,
             layout \in layoutOptions(variant) :
              project = [id        |-> 0,
                         name      |-> "Meine Tiere",
                         createdAt |-> 0,
                         note      |-> "Notiz",
                         layout    |-> layout,
                         images    |->
                             [k \in 1..n |->
                                 IF k = 1 THEN uploadedImage(variant, 1, bytes,
                                                            crop)
                                 ELSE uploadedImage(variant, k, <<255>>,
                                                    defaultCrop)]]
       \/ \E file \in HandMadeFiles :
              project = restored(variant, JSONparse(fileOf(file).text), 0, 0)
    /\ nextId = 3
    /\ isLoading = FALSE
    /\ load = Loaded
    /\ store = storeOf(project)
    /\ pending = NoPending
    /\ downloaded = <<>>
    /\ fileJobs = NoFileJobs
    /\ previewUrlsRef = previewOf(project)
    /\ objectUrls = [created |-> createdFor(project), revoked |-> {}]
    /\ mounted = TRUE
    /\ activeStep = 0
    /\ cropBatch = NoJob
    /\ isExportingPdf = FALSE
    /\ pc = "idle"
    /\ job = NoJob
    /\ index = 0
    /\ cardIndex = 0
    /\ pdfDoc = <<>>
    /\ croppedBlob = NoBlob
    /\ renderCalls = 0
    /\ exportsStarted = 0
    /\ downloads = 0
    /\ failure = "none"
    /\ errorMessages = <<>>

NextJson ==
    \/ /\ Len(downloaded) + Len(fileJobs.exports) < MaxFiles
       /\ handleExportProject
    \/ blobToBase64Settled
    \/ /\ nextId = 3
       /\ pending.started = 0
       /\ Len(downloaded) = 1
       /\ fileJobs = NoFileJobs
       /\ handleCreateNew /\ rendered /\ UNCHANGED <<downloaded, otherUi>>
    \/ \E k \in 1..Len(downloaded) :
           /\ pending.started + Len(fileJobs.imports) <= 1
           /\ fileJobs.exports = <<>>
           /\ handleImportProject(downloaded[k])
    \/ fileTextSettled
    \/ projectsPutSettled
    \/ metaPutShown

SpecJson == InitJson /\ [][NextJson]_vars

-----------------------------------------------------------------------------
(* Images are added, cropped with the Cropper and the rotation slider, and *)
(* projects are imported from files of any content                         *)

\* the patches the Cropper (zoom between minZoom and its maxZoom 3) and the
\* rotation slider (min -180, max 180) emit at the ends of their ranges
RangeUpdates ==
    {[zoom |-> minZoom], [zoom |-> 3 * ZoomScale],
     [rotation |-> -180], [rotation |-> 180]}

\* parsed project files with one image: without a crop state, with the
\* default one, and with zoom 0.1 and rotation 270
CraftedFiles ==
    {[id |-> 0, name |-> "Tiere", createdAt |-> 0, note |-> "", layout |-> 6,
      images |-> <<spread([id |-> 1, name |-> "katze.png",
                           type |-> imagePng, data |-> <<>>], crop)>>]
        : crop \in {NoCrop,
                    [crop |-> defaultCrop],
                    [crop |-> [x |-> 0, y |-> 0, zoom |-> ZoomScale \div 10,
                               rotation |-> 270]]}}

NextRange ==
    \/ /\ Editable
       /\ nextId <= 2
       /\ handleAddImages(1) /\ rendered /\ UNCHANGED <<downloaded, otherUi>>
    \/ /\ Editable
       /\ \E id \in imageIds(project), cropUpdate \in RangeUpdates :
              /\ handleCropUpdate(id, cropUpdate) /\ rendered /\ UNCHANGED <<downloaded, otherUi>>
    \/ /\ Editable
       /\ \E id \in imageIds(project) :
              /\ onInteractionStart(id) /\ rendered /\ UNCHANGED <<downloaded, otherUi>>
    \/ \E imported \in CraftedFiles :
           /\ pending.started = 0
           /\ fileJobs.imports = <<>>
           /\ handleImportProject(fileOf(imported))
    \/ fileTextSettled
    \/ projectsPutSettled
    \/ metaPutShown

SpecRange == Init /\ [][NextRange]_vars

-----------------------------------------------------------------------------
(* The previews of a project that is edited, replaced and torn down *)

\* the contents of project files as handleExportProject writes them
ExportedFiles ==
    {file \in CraftedFiles :
        \A k \in 1..Len(file.images) :
            "crop" \in DOMAIN file.images[k] =>
                file.images[k].crop = defaultCrop}

\* the contents of the files that are imported: those, and a file written
\* by hand that holds two images of one id
PreviewFiles ==
    ExportedFiles
    \cup {[id |-> 0, name |-> "Tiere", createdAt |-> 0, note |-> "",
           layout |-> 6,
           images |-> <<[id |-> 1, name |-> "katze.png",
                         type |-> imagePng, data |-> <<>>],
                        [id |-> 1, name |-> "hund.png",
                         type |-> imagePng, data |-> <<>>]>>]}

NextPreview ==
    \/ /\ mounted /\ Editable
       /\ handleCreateNew /\ rendered /\ UNCHANGED <<downloaded, otherUi>>
    \/ /\ mounted /\ Editable
       /\ nextId <= MaxLiveImages + 1
       /\ handleAddImages(1) /\ rendered /\ UNCHANGED <<downloaded, otherUi>>
    \/ /\ mounted /\ Editable
       /\ \E id \in imageIds(project) :
              /\ handleRemoveImage(id) /\ rendered /\ UNCHANGED <<downloaded, otherUi>>
    \/ /\ mounted /\ Editable
       /\ \E id \in imageIds(project), cropUpdate \in LiveUpdates :
              /\ handleCropUpdate(id, cropUpdate) /\ rendered /\ UNCHANGED <<downloaded, otherUi>>
    \/ \E imported \in PreviewFiles :
           /\ mounted /\ Editable
           /\ pending.started + Len(fileJobs.imports) + 1 < MaxSaves
           /\ handleImportProject(fileOf(imported))
    \/ fileTextSettled
    \/ projectsPutSettled
    \/ metaPutShown
    \/ unmount

SpecPreview == Init /\ [][NextPreview]_vars

-----------------------------------------------------------------------------
(* Several crop events reach the handlers of one render *)

MaxEvents == 2

\* the events of the Cropper of image id, with the patch each one carries;
\* the Cropper of the component with page margins has no onInteractionStart
CropEventsOf(id) ==
    {[kind |-> "onCropChange", id |-> id, cropUpdate |-> [x |-> 5, y |-> -3]],
     [kind |-> "onZoomChange", id |-> id,
      cropUpdate |-> [zoom |-> 2 * ZoomScale]],
     [kind |-> "onRotationChange", id |-> id,
      cropUpdate |-> [rotation |-> 90]]}
    \cup {[kind |-> "onCropComplete", id |-> id,
           cropUpdate |-> [cropAreaPixels |-> area]] : area \in CropAreas}
    \cup (IF variant = "borderless"
          THEN {[kind |-> "onInteractionStart", id |-> id,
                 cropUpdate |-> NoCrop]}
          ELSE {})

\* the events that reach the handlers of one render: of the Croppers of
\* the tiles, or of the one Cropper of the component with page margins
EventBatches(p) ==
    {events \in UNION {[1..n -> UNION {CropEventsOf(id) : id \in imageIds(p)}]
                          : n \in 1..MaxEvents} :
        variant = "margin" =>
            \A k \in 1..Len(events) : events[k].id = events[1].id}

NextBatch ==
    \/ /\ variant = "margin"
       /\ cropBatch = NoJob
       /\ activeStep = 0
       /\ handleStepChange(1)
    \/ /\ cropBatch = NoJob
       /\ \E events \in EventBatches(project) :
              /\ deliverCropEvents(events)
              /\ rendered /\ UNCHANGED downloaded
    \/ projectsPutSettled
    \/ metaPutShown

SpecBatch == InitEdit /\ [][NextBatch]_vars

-----------------------------------------------------------------------------
(* Properties of the export *)

\* the tiles placed so far, page by page in placement order
placedTiles == Flatten([p \in 1..Len(pdfDoc) |-> pdfDoc[p].tiles])

\* the images of the project the export was started on
exportedImages == job.project.images

\* all tiles are placed and the page loop has ended
Assembled == pc \in {"save", "done"}

\* cells of a page of the template the export was started on
cellsOfJob ==
    layoutConfig(variant, job.project.layout).rows
        * layoutConfig(variant, job.project.layout).cols

CeilDiv(a, b) == (a + b - 1) \div b

\* C1: an export of N >= 1 images adds exactly ceil(2N / (rows*cols)) pages
\* to the document, whatever the template; no page beyond that number is
\* ever added while the export runs.
C1_PageCount ==
    job # NoJob =>
        /\ Len(pdfDoc) <= CeilDiv(2 * Len(exportedImages), cellsOfJob)
        /\ Assembled /\ Len(exportedImages) >= 1 =>
               Len(pdfDoc) = CeilDiv(2 * Len(exportedImages), cellsOfJob)

\* five images on the 2x3 template: ten tiles, a full page and a page of four
C1_Witness ==
    /\ pc = "done"
    /\ variant = "borderless"
    /\ job.project.layout = 6
    /\ Len(exportedImages) = 5
    /\ Len(pdfDoc) = 2

occurrencesIn(tiles, id) ==
    Cardinality({k \in 1..Len(tiles) : tiles[k].image.id = id})

occurrences(id) == occurrencesIn(placedTiles, id)

\* C2: across the pages of one export every image id of the project is
\* placed exactly twice, never more than twice while the export runs, and
\* every placed tile is an image of the project.
C2_ExactlyTwice ==
    job # NoJob =>
        LET tiles == placedTiles
        IN  /\ \A k \in 1..Len(tiles) :
                   \E n \in 1..Len(exportedImages) :
                       tiles[k].image = exportedImages[n]
            /\ \A n \in 1..Len(exportedImages) :
                   /\ occurrencesIn(tiles, exportedImages[n].id) <= 2
                   /\ Assembled =>
                          occurrencesIn(tiles, exportedImages[n].id) = 2

C2_Witness ==
    /\ pc = "done"
    /\ Len(exportedImages) >= 3
    /\ Len(pdfDoc) >= 2
    /\ \A n \in 1..Len(exportedImages) : occurrences(exportedImages[n].id) = 2

\* C3: read page by page, the tiles are the sequence img1, img1, img2, img2,
\* ... in project order: the j-th tile of page p is entry (p-1)*cells + j of
\* that sequence, and an assembled page p holds the entries up to
\* min(p*cells, 2N).
C3_PairedOrder ==
    job # NoJob =>
        LET cells == cellsOfJob
        IN  \A p \in 1..Len(pdfDoc) :
                LET tiles == pdfDoc[p].tiles
                IN  /\ \A j \in 1..Len(tiles) :
                           LET entry == (p - 1) * cells + j
                           IN  /\ entry <= 2 * Len(exportedImages)
                               /\ tiles[j].image
                                      = exportedImages[(entry + 1) \div 2]
                    /\ Assembled =>
                           Len(tiles) =
                               Min(p * cells, 2 * Len(exportedImages))
                                   - (p - 1) * cells

\* three images on the 2x2 template: img1,img1,img2,img2 then img3,img3 in
\* cells (0,0) and (0,1)
C3_Witness ==
    /\ pc = "done"
    /\ variant = "margin"
    /\ job.project.layout = 4
    /\ Len(exportedImages) = 3
    /\ Len(pdfDoc) = 2
    /\ [j \in 1..4 |-> pdfDoc[1].tiles[j].image.id]
           = <<exportedImages[1].id, exportedImages[1].id,
               exportedImages[2].id, exportedImages[2].id>>
    /\ [j \in 1..2 |-> pdfDoc[2].tiles[j].image.id]
           = <<exportedImages[3].id, exportedImages[3].id>>
    /\ <<pdfDoc[2].tiles[1].row, pdfDoc[2].tiles[1].col>> = <<0, 0>>
    /\ <<pdfDoc[2].tiles[2].row, pdfDoc[2].tiles[2].col>> = <<0, 1>>

\* C4: a page never holds more than rows*cols tiles, every page but the last
\* holds exactly rows*cols, and the last page of an assembled document holds
\* at least one.
C4_PageFill ==
    job # NoJob =>
        LET cells == cellsOfJob
        IN  \A p \in 1..Len(pdfDoc) :
                /\ Len(pdfDoc[p].tiles) <= cells
                /\ p < Len(pdfDoc) => Len(pdfDoc[p].tiles) = cells
                /\ Assembled /\ p = Len(pdfDoc) => Len(pdfDoc[p].tiles) >= 1

C4_Witness ==
    /\ pc = "done"
    /\ Len(pdfDoc) = 2
    /\ Len(pdfDoc[1].tiles) = cellsOfJob
    /\ Len(pdfDoc[2].tiles) \in 1..(cellsOfJob - 1)

\* the template constants of the export, in 1/Scale mm
gridRows == layoutConfig(variant, job.project.layout).rows
gridCols == layoutConfig(variant, job.project.layout).cols
borderlessCard == layoutConfig("borderless", job.project.layout).cardSizeMm * Scale

\* a document length d (1/254 pt) is the conversion of the length mm
IsPt(d, mm) == d * Scale = mm * 720

\* C5: in the borderless templates the tile with in-page index i lies in
\* cell (i div cols, i mod cols), inside the grid, distinct indices in
\* distinct cells, and is drawn at x = col*cardSize, y = (rows-1-row)*cardSize
\* with width = height = cardSize, origin bottom-left: row 0 is the topmost
\* row and neighbouring cards touch without a gap.
C5_BorderlessPlacement ==
    (job # NoJob /\ variant = "borderless") =>
        \A p \in 1..Len(pdfDoc) :
            LET tiles == pdfDoc[p].tiles
                nRows == gridRows
                nCols == gridCols
                card  == borderlessCard
            IN  /\ \A j \in 1..Len(tiles) :
                       /\ tiles[j].row = (j - 1) \div nCols
                       /\ tiles[j].col = (j - 1) % nCols
                       /\ tiles[j].row < nRows
                       /\ tiles[j].col < nCols
                       /\ tiles[j].xMm = tiles[j].col * card
                       /\ tiles[j].yMm = (nRows - 1 - tiles[j].row) * card
                       /\ tiles[j].sizeMm = card
                       /\ IsPt(tiles[j].x, tiles[j].xMm)
                       /\ IsPt(tiles[j].y, tiles[j].yMm)
                       /\ IsPt(tiles[j].width, card)
                       /\ IsPt(tiles[j].height, card)
                       /\ tiles[j].row = 0 =>
                              tiles[j].yMm + tiles[j].sizeMm = nRows * card
                /\ \A j, k \in 1..Len(tiles) :
                       /\ j # k => <<tiles[j].row, tiles[j].col>>
                                       # <<tiles[k].row, tiles[k].col>>
                       /\ tiles[j].row < tiles[k].row =>
                              tiles[j].yMm > tiles[k].yMm
                       /\ (tiles[j].row = tiles[k].row
                              /\ tiles[k].col = tiles[j].col + 1) =>
                              tiles[k].x = tiles[j].x + tiles[j].width
                       /\ (tiles[j].col = tiles[k].col
                              /\ tiles[k].row = tiles[j].row + 1) =>
                              tiles[j].y = tiles[k].y + tiles[k].height

C5_Witness ==
    /\ pc = "done"
    /\ variant = "borderless"
    /\ job.project.layout = 12
    /\ Len(pdfDoc[1].tiles) = 12
    /\ pdfDoc[1].tiles[6].row = 1
    /\ pdfDoc[1].tiles[6].col = 1
    /\ pdfDoc[1].tiles[6].xMm = 70 * Scale
    /\ pdfDoc[1].tiles[6].yMm = 70 * Scale

\* the page of the template, in 1/Scale mm
pageWidthOfJob ==
    IF variant = "borderless"
    THEN layoutConfig(variant, job.project.layout).pageWidthMm * Scale
    ELSE a4WidthMm * Scale

pageHeightOfJob ==
    IF variant = "borderless"
    THEN layoutConfig(variant, job.project.layout).pageHeightMm * Scale
    ELSE a4HeightMm * Scale

\* two squares have no interior point in common
Disjoint(a, b) ==
    \/ a.x + a.width <= b.x
    \/ b.x + b.width <= a.x
    \/ a.y + a.height <= b.y
    \/ b.y + b.height <= a.y

\* C6: on every page of every export, in every shipped template, each card
\* square lies within the page rectangle and no two cards of a page overlap.
C6_CardsFitPage ==
    job # NoJob =>
        \A p \in 1..Len(pdfDoc) :
            LET tiles == pdfDoc[p].tiles
                pageWidth  == pageWidthOfJob
                pageHeight == pageHeightOfJob
            IN  /\ IsPt(pdfDoc[p].width, pageWidth)
                /\ IsPt(pdfDoc[p].height, pageHeight)
                /\ \A j \in 1..Len(tiles) :
                       /\ tiles[j].width > 0
                       /\ tiles[j].height = tiles[j].width
                       /\ IsPt(tiles[j].width, tiles[j].sizeMm)
                       /\ tiles[j].x >= 0
                       /\ tiles[j].y >= 0
                       /\ tiles[j].x + tiles[j].width <= pdfDoc[p].width
                       /\ tiles[j].y + tiles[j].height <= pdfDoc[p].height
                       /\ tiles[j].xMm >= 0
                       /\ tiles[j].yMm >= 0
                       /\ tiles[j].xMm + tiles[j].sizeMm <= pageWidth
                       /\ tiles[j].yMm + tiles[j].sizeMm <= pageHeight
                /\ \A j, k \in 1..Len(tiles) :
                       j # k => Disjoint(tiles[j], tiles[k])

\* a full page of the tallest grid (4 rows of 2 on A4 with margins)
C6_Witness ==
    /\ pc = "done"
    /\ variant = "margin"
    /\ job.project.layout = 8
    /\ Len(pdfDoc[1].tiles) = 8
    /\ pdfDoc[1].tiles[2].xMm + pdfDoc[1].tiles[2].sizeMm
           <= (a4WidthMm - marginMm) * Scale
    /\ pdfDoc[1].tiles[1].yMm + pdfDoc[1].tiles[1].sizeMm
           = (a4HeightMm - marginMm) * Scale

\* C7: while the project has no image and no export is running, no step
\* creates a page, invokes the rasterizer, triggers a download or changes the
\* exporting flag: a call of handleExportPdf only returns.
C7_EmptyExportIsNoOp ==
    [][(Settled /\ project.images = <<>>) =>
           /\ UNCHANGED <<isExportingPdf, job, pdfDoc, croppedBlob, renderCalls,
                          exportsStarted, downloads, failure>>
           /\ pc' \in {pc, "returned"}]_vars

\* handleExportPdf was called on an empty project and returned early
C7_Witness ==
    /\ pc = "returned"
    /\ project.images = <<>>
    /\ isExportingPdf = FALSE
    /\ pdfDoc = <<>>
    /\ renderCalls = 0
    /\ downloads = 0

\* C8: when a tile fails the export stops there: no further tile is placed
\* and no file is emitted for it.  A download happens only as the last step
\* of an export whose document holds every tile of every page.
C8_AllOrNothing ==
    [][/\ (pc' = "failed" /\ pc # "failed") =>
              /\ pc \in {"create", "render", "arrayBuffer", "embed", "save"}
              /\ failure' # "none"
              /\ UNCHANGED <<pdfDoc, downloads, renderCalls>>
       /\ pc = "failed" =>
              /\ downloads' = downloads
              /\ pdfDoc' = pdfDoc \/ pc' = "create"
       /\ downloads' # downloads =>
              /\ downloads' = downloads + 1
              /\ pc = "save" /\ pc' = "done"
              /\ failure = "none"
              /\ pdfDoc' = pdfDoc
              /\ Len(placedTiles) = 2 * Len(exportedImages)
              /\ Len(pdfDoc) = CeilDiv(2 * Len(exportedImages), cellsOfJob)
      ]_vars

\* an export that failed on the third tile of a page and emitted nothing
C8_Witness ==
    /\ pc = "failed"
    /\ failure = "ImageEncodeFailed"
    /\ Len(placedTiles) = 2
    /\ Len(exportedImages) >= 2
    /\ renderCalls = 3
    /\ downloads = 0

\* C9: an export that aborts on a failure shows the user exactly one error
\* message.
C9_FailureSurfacedOnce ==
    pc = "failed" => Len(errorMessages) = 1

-----------------------------------------------------------------------------
(* Properties of renderCroppedImage *)

Malformed(image) ==
    LET area == image.crop.cropAreaPixels
        bBox == rotateSize(image.blob.width, image.blob.height,
                           rotationOf(image))
    IN  /\ "cropAreaPixels" \in DOMAIN image.crop
        /\ \/ area.width <= 0 \/ area.height <= 0
           \/ area.x < 0 \/ area.y < 0
           \/ area.x + area.width > canvasOf(bBox).width
           \/ area.y + area.height > canvasOf(bBox).height

EnvironmentErrors ==
    {"ImageDecodeFailed", "RenderingUnavailable", "ImageEncodeFailed",
     "DocumentCreationFailed", "BlobReadFailed", "EmbeddingFailed",
     "SerializationFailed"}

\* C10: a malformed supplied crop rectangle is never an error.  A render of
\* such an image in a working environment resolves, an export fails only on
\* an environment error, and the raster of every rendered tile is
\* outputSizePx x outputSizePx.
C10_MalformedCropTolerated ==
    /\ failure \in EnvironmentErrors \cup {"none"}
    /\ (pc = "render" /\ Malformed(currentSlice[cardIndex + 1])) =>
           renderCroppedImage(currentSlice[cardIndex + 1],
               cardSizePx(variant, job.project.layout), "ok").status = "ok"
    /\ (croppedBlob # NoBlob /\ Malformed(currentSlice[cardIndex + 1])) =>
           /\ croppedBlob.width = cardSizePx(variant, job.project.layout)
           /\ croppedBlob.height = cardSizePx(variant, job.project.layout)
    /\ \A k \in 1..Len(placedTiles) :
           Malformed(placedTiles[k].image) =>
               /\ placedTiles[k].raster.width
                      = cardSizePx(variant, job.project.layout)
               /\ placedTiles[k].raster.height
                      = cardSizePx(variant, job.project.layout)

\* an exported image whose crop rectangle has no area: both tiles blank
C10_Witness ==
    /\ pc = "done"
    /\ Len(placedTiles) = 2
    /\ Malformed(placedTiles[1].image)
    /\ placedTiles[1].image.crop.cropAreaPixels.width = 0
    /\ placedTiles[1].raster.painted = FALSE
    /\ placedTiles[2].raster.width = cardSizePx(variant, job.project.layout)

\* the image whose render is awaiting embedPng
renderedImage == currentSlice[cardIndex + 1]

\* the largest centered square of a width x height image, in 1/PxScale px
centeredSquare(width, height) ==
    LET size == Min(width, height)
    IN  [x |-> ((width - size) * PxScale) \div 2,
         y |-> ((height - size) * PxScale) \div 2,
         width |-> size * PxScale, height |-> size * PxScale]

\* C11: an image whose crop state has no crop rectangle is rendered with the
\* largest centered square of the unrotated image, size = min(w, h),
\* x = (w - size)/2, y = (h - size)/2, and with rotation 0, whatever its
\* natural size.
C11_DefaultCropGeometry ==
    (croppedBlob # NoBlob /\ "cropAreaPixels" \notin DOMAIN renderedImage.crop)
        => /\ croppedBlob.area = centeredSquare(renderedImage.blob.width,
                                                renderedImage.blob.height)
           /\ 2 * croppedBlob.area.x = (renderedImage.blob.width
                  - Min(renderedImage.blob.width, renderedImage.blob.height))
                      * PxScale
           /\ croppedBlob.rotation = 0

\* C12: the crop rectangle sampled for an image without a crop rectangle of
\* its own lies inside the canvas of the rotation bounding box.
C12_DefaultCropInsideCanvas ==
    (croppedBlob # NoBlob /\ "cropAreaPixels" \notin DOMAIN renderedImage.crop)
        => /\ croppedBlob.canvas.width
                  = canvasOf(rotateSize(renderedImage.blob.width,
                        renderedImage.blob.height,
                        rotationOf(renderedImage))).width
           /\ croppedBlob.area.x >= 0
           /\ croppedBlob.area.y >= 0
           /\ croppedBlob.area.x + croppedBlob.area.width
                  <= croppedBlob.canvas.width
           /\ croppedBlob.area.y + croppedBlob.area.height
                  <= croppedBlob.canvas.height

-----------------------------------------------------------------------------
(* Properties of the rasterization within one export *)

\* px is the whole number nearest to (mm / 25.4) * 300, mm in 1/Scale mm
IsNearestPx(px, mm) ==
    2 * Abs(px * 254 * Scale - mm * 3000) <= 254 * Scale

\* C13: within one export every tile is rasterized at the same square pixel
\* size, round((cardSize / 25.4) * 300) for the card size of the template,
\* whatever the image, its crop state and its position on the page.
C13_UniformRaster ==
    job # NoJob =>
        LET tiles == placedTiles
        IN  /\ \A k \in 1..Len(tiles) :
                   /\ tiles[k].raster.width = tiles[k].raster.height
                   /\ tiles[k].raster.width = tiles[1].raster.width
                   /\ IsNearestPx(tiles[k].raster.width, tiles[k].sizeMm)
                   /\ (variant = "borderless" /\ job.project.layout = 6) =>
                          tiles[k].raster.width = 1169
                   /\ (variant = "borderless" /\ job.project.layout = 12) =>
                          tiles[k].raster.width = 827
            /\ croppedBlob # NoBlob =>
                   /\ croppedBlob.width = croppedBlob.height
                   /\ \A k \in 1..Len(tiles) :
                          tiles[k].raster.width = croppedBlob.width

\* images of three natural sizes on two pages, all rasterized at 1169 px
C13_Witness ==
    /\ pc = "done"
    /\ variant = "borderless"
    /\ job.project.layout = 6
    /\ Len(pdfDoc) = 2
    /\ placedTiles[1].image.blob # placedTiles[3].image.blob
    /\ placedTiles[3].image.blob # placedTiles[5].image.blob
    /\ placedTiles[1].raster.width = 1169
    /\ placedTiles[Len(placedTiles)].raster.width = 1169

\* C15: the tiles of an export are rasterized, embedded and drawn one at a
\* time in plan order: the tile being rasterized or embedded is the one after
\* the tiles already drawn, no other rasterization has been started, and a
\* page is added only when every tile of the pages before it is drawn.
C15_OneTileAtATime ==
    job # NoJob =>
        LET tiles == placedTiles
        IN  /\ renderCalls - Len(tiles) \in {0, 1}
            /\ pc \in {"render", "arrayBuffer", "embed"} =>
                   /\ renderCalls = Len(tiles) + 1
                   /\ renderedImage = job.images[Len(tiles) + 1]
                   /\ Len(pdfDoc[Len(pdfDoc)].tiles) = cardIndex
            /\ pc \in {"arrayBuffer", "embed"} => croppedBlob # NoBlob
            /\ pc = "render" => croppedBlob = NoBlob
            /\ pc \in {"save", "done"} => renderCalls = Len(tiles)
            /\ \A k \in 1..Len(tiles) : tiles[k].image = job.images[k]
            /\ \A p \in 1..Len(pdfDoc) :
                   p < Len(pdfDoc) =>
                       Len(pdfDoc[p].tiles) =
                           cardsPerPage(variant, job.project.layout)
            /\ Len(pdfDoc) >= 1 =>
                   Len(tiles) - Len(pdfDoc[Len(pdfDoc)].tiles)
                       = (Len(pdfDoc) - 1)
                             * cardsPerPage(variant, job.project.layout)

\* the first tile of the second page is being rasterized: the first page is
\* full and nothing else is in flight
C15_Witness ==
    /\ pc = "render"
    /\ Len(pdfDoc) = 2
    /\ pdfDoc[2].tiles = <<>>
    /\ Len(placedTiles) = cardsPerPage(variant, job.project.layout)
    /\ renderCalls = Len(placedTiles) + 1
    /\ croppedBlob = NoBlob

-----------------------------------------------------------------------------
(* Properties of repeated exports *)

\* the inputs of an export: the ordered images with their crop states and
\* the template
inputsOf(file) == <<file.project.images, file.project.layout>>

\* the placements of a file, page by page
placementsOf(file) ==
    [p \in 1..Len(file.doc) |->
        [j \in 1..Len(file.doc[p].tiles) |->
            LET tile == file.doc[p].tiles[j]
            IN  <<tile.image, tile.raster.area, tile.raster.rotation,
                  tile.raster.width, tile.raster.height,
                  tile.x, tile.y, tile.width, tile.height>>]]

-----------------------------------------------------------------------------
(* Properties of the crop updates *)

\* the updates handleCropUpdate is called with
AllCropUpdates ==
    CropUpdates \cup {[cropAreaPixels |-> area] : area \in CropAreas}

\* the fields every crop state has after an update
CropFields == {"x", "y", "zoom", "rotation"}

\* C17: after handleCropUpdate(id, patch) the crop state of the image holds
\* for every field of the patch the value of the patch, for every other
\* field it had before the value it had, and for x, y, zoom, rotation not set
\* by either the defaults 0, 0, 1, 0; it has no other field.
C17_CropUpdateMerges ==
    [][\A id \in imageIds(project), cropUpdate \in AllCropUpdates :
           handleCropUpdate(id, cropUpdate) =>
               /\ Len(imagesOf(project', id)) = Len(imagesOf(project, id))
               /\ \A n \in 1..Len(imagesOf(project, id)) :
                  LET before == imagesOf(project, id)[n].crop
                      after  == imagesOf(project', id)[n].crop
                      unset  == CropFields
                                    \ (DOMAIN before \cup DOMAIN cropUpdate)
                  IN  /\ DOMAIN after
                             = CropFields \cup DOMAIN before
                                   \cup DOMAIN cropUpdate
                      /\ \A field \in DOMAIN cropUpdate :
                             after[field] = cropUpdate[field]
                      /\ \A field \in DOMAIN before \ DOMAIN cropUpdate :
                             after[field] = before[field]
                      /\ "x" \in unset => after.x = 0
                      /\ "y" \in unset => after.y = 0
                      /\ "zoom" \in unset => after.zoom = 1 * ZoomScale
                      /\ "rotation" \in unset => after.rotation = 0
      ]_vars

\* an image stored with the crop state {rotation: 90} after onCropChange:
\* x and y of the patch, the rotation it had, the default zoom
C17_Witness ==
    /\ project # NoProject
    /\ \E k \in 1..Len(project.images) :
           /\ DOMAIN project.images[k].crop = CropFields
           /\ project.images[k].crop.x = 5
           /\ project.images[k].crop.y = -3
           /\ project.images[k].crop.zoom = 1 * ZoomScale
           /\ project.images[k].crop.rotation = 90

\* the step is a crop update of image id
CropEvent(id) ==
    \/ \E cropUpdate \in AllCropUpdates : handleCropUpdate(id, cropUpdate)
    \/ onInteractionStart(id)

\* the project without its images
headOf(p) == [p EXCEPT !.images = <<>>]

\* C18: a crop update of image A changes nothing but the crop state of A:
\* the other images, the order of the images and the id, name, note and
\* layout of the project stay; and the crop state of an image that stays in
\* the project changes only in a crop update of that image, never when an
\* image is added or removed or the project is renamed.
C18_CropFrame ==
    [][/\ \A id \in imageIds(project) :
              CropEvent(id) =>
                  /\ headOf(project') = headOf(project)
                  /\ Len(project'.images) = Len(project.images)
                  /\ \A k \in 1..Len(project.images) :
                         /\ project'.images[k].id = project.images[k].id
                         /\ project'.images[k].blob = project.images[k].blob
                         /\ project.images[k].id # id =>
                                project'.images[k] = project.images[k]
       /\ \A id \in imageIds(project) \cap imageIds(project') :
              (\E n \in 1..Len(imagesOf(project, id)) :
                   \/ n > Len(imagesOf(project', id))
                   \/ imagesOf(project', id)[n].crop
                          # imagesOf(project, id)[n].crop) =>
                  CropEvent(id)
      ]_vars

\* the second image has been cropped and the project renamed while the
\* first image still has the crop state it was stored with
C18_Witness ==
    /\ project # NoProject
    /\ Len(project.images) = 2
    /\ project.images[1].crop = [rotation |-> 90]
    /\ "cropAreaPixels" \in DOMAIN project.images[2].crop
    /\ project.images[2].crop.x = 5
    /\ project.name = "Tiere"

-----------------------------------------------------------------------------
(* Properties of an export of a project that is being edited *)

\* the project as it was when the export was triggered
snapshot == job.project

\* C16: whatever is done to the project while an export runs (crop updates,
\* images added or removed, the template changed, a new project created),
\* the export uses the project as it was when it was triggered: its page
\* count, tile order, template and crop geometry are those of that project.
C16_ExportUsesSnapshot ==
    job # NoJob =>
        /\ Len(pdfDoc) <= CeilDiv(2 * Len(snapshot.images),
                                  cardsPerPage(variant, snapshot.layout))
        /\ Assembled =>
               /\ Len(placedTiles) = 2 * Len(snapshot.images)
               /\ Len(pdfDoc) = CeilDiv(2 * Len(snapshot.images),
                                        cardsPerPage(variant, snapshot.layout))
        /\ \A p \in 1..Len(pdfDoc) :
               /\ IsPt(pdfDoc[p].width, pageWidthMm(variant, snapshot.layout))
               /\ IsPt(pdfDoc[p].height,
                       pageHeightMm(variant, snapshot.layout))
        /\ \A k \in 1..Len(placedTiles) :
               LET tile  == placedTiles[k]
                   image == snapshot.images[(k + 1) \div 2]
               IN  /\ tile.image = image
                   /\ tile.raster.area = cropAreaPixelsOf(image)
                   /\ tile.raster.rotation = rotationOf(image)
                   /\ tile.sizeMm = cardSizeMm(variant, snapshot.layout)
                   /\ IsPt(tile.width, cardSizeMm(variant, snapshot.layout))
                   /\ tile.raster.width = cardSizePx(variant, snapshot.layout)
                   /\ tile.col = ((k - 1) % cardsPerPage(variant,
                           snapshot.layout)) % cols(variant, snapshot.layout)

\* all tiles of a two-image project are placed although, since the export
\* was triggered, the first image was turned, the second one removed and
\* the template changed
C16_Witness ==
    /\ pc = "save"
    /\ Len(snapshot.images) = 2
    /\ Len(placedTiles) = 4
    /\ project.id = snapshot.id
    /\ project.layout # snapshot.layout
    /\ Len(project.images) = 1
    /\ project.images[1].id = snapshot.images[1].id
    /\ project.images[1].crop.rotation = 90
    /\ placedTiles[1].raster.rotation = 0
    /\ placedTiles[3].image = snapshot.images[2]

-----------------------------------------------------------------------------
(* Properties of loading and saving *)

\* the stored projects the lastProjectId entry of the store names
namedProjects ==
    {p \in store.projects :
        \E item \in store.meta :
            item.key = "lastProjectId" /\ item.value = p.id}

\* C19: at startup no project is shown while the component is loading; the
\* project shown when loading ends is in the store: it is the one the
\* lastProjectId entry names if that one is stored, and otherwise one with
\* the greatest createdAt; the first project put into an empty store is a
\* new empty project, put while nothing is shown yet.  The load effect
\* takes an entry whose value is the empty string for a missing one.
C19_StartupProject ==
    [][/\ isLoading' => project' = NoProject
       /\ (isLoading /\ ~isLoading') =>
              /\ project' \in store.projects
              /\ IF namedProjects # {}
                 THEN project' \in namedProjects
                 ELSE \A q \in store.projects :
                          q.createdAt <= project'.createdAt
       /\ (store.projects = {} /\ store'.projects # {}) =>
              /\ isLoading /\ project = NoProject
              /\ \A p \in store'.projects :
                     /\ p = createEmptyProject(variant, p.id, p.createdAt)
                     /\ store'.projects = {p}
      ]_vars

\* C20: once the project is shown, every step that changes it starts a
\* saveProject call for the new project, and whenever no put request is
\* waiting the store holds exactly the shown project under its id.
C20_ChangesAreSaved ==
    [][/\ (~isLoading' /\ project' # project) =>
              /\ pending'.started = pending.started + 1
              /\ pending'.projects # <<>>
              /\ pending'.projects[Len(pending'.projects)].project = project'
       /\ (~isLoading' /\ pending'.projects = <<>> /\ pending'.meta = <<>>) =>
              {p \in store'.projects : p.id = project'.id} = {project'}
      ]_vars

\* a renamed project with an image and a note has been saved and no put
\* request is waiting
C20_Witness ==
    /\ ~isLoading
    /\ pending.projects = <<>>
    /\ pending.meta = <<>>
    /\ pending.started >= 4
    /\ project # NoProject
    /\ project.name = "Tiere"
    /\ project.note = "Notiz"
    /\ Len(project.images) = 1
    /\ project \in store.projects

-----------------------------------------------------------------------------
(* Properties of project files *)

\* the project of the saveProject call the step has started
startedProject == pending'.projects[Len(pending'.projects)].project

\* the step is handleImportProject up to await saveProject(restored)
ImportStarts ==
    /\ Len(pending'.projects) = Len(pending.projects) + 1
    /\ pending'.projects[Len(pending'.projects)].from = "import"

\* the step resolves the saveProject call of handleImportProject
ImportEnds ==
    /\ pending.meta # <<>>
    /\ Head(pending.meta).from = "import"
    /\ pending'.meta = Tail(pending.meta)

\* p has the id, name, createdAt and note of q and the images of q in
\* their order, each with the same id, name, type, crop state and bytes
SameProject(p, q) ==
    /\ p.id = q.id
    /\ p.name = q.name
    /\ p.createdAt = q.createdAt
    /\ p.note = q.note
    /\ Len(p.images) = Len(q.images)
    /\ \A k \in 1..Len(q.images) :
           /\ p.images[k].id = q.images[k].id
           /\ p.images[k].name = q.images[k].name
           /\ p.images[k].type = q.images[k].type
           /\ p.images[k].crop = q.images[k].crop
           /\ p.images[k].blob.bytes = q.images[k].blob.bytes

\* C21: handleImportProject can restore every file written by
\* handleExportProject: atob accepts the data of each of its images.  The
\* project it restores has the id, name, createdAt and note of the exported
\* project and its images in the same order, each with equal id, name,
\* type, crop state and bytes; when the import ends the restored project is
\* shown and lastProjectId names it, and once no put request is waiting
\* the store holds it as the last-used project.  blobToBase64 returns what
\* follows the first comma of the data URL, which for a blob type with a
\* comma is not the data.
C21_RoundTrip ==
    [][/\ \A k \in 1..Len(downloaded') : decodable(downloaded'[k].text)
       /\ ImportStarts =>
              \E k \in 1..Len(downloaded) :
                  SameProject(startedProject, downloaded[k].project)
       /\ ImportEnds =>
              /\ project' = Head(pending.meta).project
              /\ store'.meta = {[key |-> "lastProjectId",
                                 value |-> project'.id]}
       /\ (pending'.projects = <<>> /\ pending'.meta = <<>>) =>
              /\ project' \in store'.projects
              /\ store'.meta = {[key |-> "lastProjectId",
                                 value |-> project'.id]}
      ]_vars

\* C22: the project handleImportProject restores from a file written by
\* handleExportProject has the layout the project had when it was exported.
\* The borderless component writes layoutValue instead of project.layout.
C22_LayoutSurvives ==
    [][ImportStarts =>
          \E k \in 1..Len(downloaded) :
              /\ SameProject(startedProject, downloaded[k].project)
              /\ startedProject.layout = downloaded[k].project.layout
      ]_vars

-----------------------------------------------------------------------------
(* Properties of the templates with margins *)

\* the squares a and b are at least gap apart, in 1/Scale mm
Apart(a, b, gap) ==
    \/ a.xMm + a.sizeMm + gap <= b.xMm
    \/ b.xMm + b.sizeMm + gap <= a.xMm
    \/ a.yMm + a.sizeMm + gap <= b.yMm
    \/ b.yMm + b.sizeMm + gap <= a.yMm

\* C23: in the templates 4, 6 and 8 on A4 with margin 10 mm and gutter 4 mm
\* the cell is (page - 2*margin - gutter*(n-1))/n wide and high, the card is
\* the smaller side of the cell and is centered in its cell; every placed
\* card is at least the margin away from every page edge and two cards of a
\* page are at least the gutter apart.
C23_MarginGeometry ==
    (job # NoJob /\ variant = "margin") =>
        LET nRows  == layoutConfig(variant, job.project.layout).rows
            nCols  == layoutConfig(variant, job.project.layout).cols
            margin == 10 * Scale
            gutter == 4 * Scale
            width  == (210 * Scale - 2 * margin - gutter * (nCols - 1))
                          \div nCols
            height == (297 * Scale - 2 * margin - gutter * (nRows - 1))
                          \div nRows
            size   == IF width <= height THEN width ELSE height
        IN  /\ width * nCols + gutter * (nCols - 1) + 2 * margin = 210 * Scale
            /\ height * nRows + gutter * (nRows - 1) + 2 * margin = 297 * Scale
            /\ \A p \in 1..Len(pdfDoc) :
                   LET tiles == pdfDoc[p].tiles
                   IN  /\ \A j \in 1..Len(tiles) :
                              LET t      == tiles[j]
                                  left   == margin + t.col * (width + gutter)
                                  bottom == margin + (nRows - 1 - t.row)
                                                         * (height + gutter)
                              IN  /\ t.sizeMm = size
                                  /\ t.row = (j - 1) \div nCols
                                  /\ t.col = (j - 1) % nCols
                                  /\ 2 * (t.xMm - left) = width - size
                                  /\ 2 * (t.yMm - bottom) = height - size
                                  /\ t.xMm >= margin
                                  /\ t.yMm >= margin
                                  /\ t.xMm + size <= 210 * Scale - margin
                                  /\ t.yMm + size <= 297 * Scale - margin
                                  /\ IsPt(t.x, t.xMm)
                                  /\ IsPt(t.y, t.yMm)
                                  /\ IsPt(t.width, size)
                       /\ \A j, k \in 1..Len(tiles) :
                              j # k => Apart(tiles[j], tiles[k], gutter)

\* a full page of template 6, whose cards are narrower than their cells
C23_Witness ==
    /\ pc = "done"
    /\ variant = "margin"
    /\ job.project.layout = 6
    /\ Len(pdfDoc[1].tiles) = 6
    /\ pdfDoc[1].tiles[1].xMm > marginMm * Scale
    /\ pdfDoc[1].tiles[2].xMm - pdfDoc[1].tiles[1].xMm
           - pdfDoc[1].tiles[1].sizeMm > gutterMm * Scale
    /\ pdfDoc[1].tiles[1].yMm + pdfDoc[1].tiles[1].sizeMm
           = (a4HeightMm - marginMm) * Scale

-----------------------------------------------------------------------------
(* Properties of the crop states *)

\* C24: every crop state of every image of the project has a zoom of at
\* least the minimum zoom and a rotation within -180..180 degrees.  An
\* imported crop state is taken over as the file holds it.
C24_CropInRange ==
    project # NoProject =>
        \A k \in 1..Len(project.images) :
            LET crop == project.images[k].crop
            IN  /\ "zoom" \in DOMAIN crop => crop.zoom >= minZoom
                /\ "rotation" \in DOMAIN crop =>
                       crop.rotation >= -180 /\ crop.rotation <= 180

-----------------------------------------------------------------------------
(* Properties of the preview URLs *)

heldUrls == {previewUrlsRef[id] : id \in DOMAIN previewUrlsRef}

\* C25: while the component is mounted the preview map holds one URL for
\* every image of the project and for nothing else, different images hold
\* different URLs and none of them is revoked; every created URL that is
\* not in the map is revoked; after teardown every created URL is revoked.
\* For a project that holds two images of one id the effect creates a URL
\* for each of them and keeps the second one only.
C25_PreviewUrls ==
    /\ (mounted /\ project # NoProject) =>
           /\ DOMAIN previewUrlsRef =
                  {project.images[k].id : k \in 1..Len(project.images)}
           /\ \A a, b \in DOMAIN previewUrlsRef :
                  previewUrlsRef[a] = previewUrlsRef[b] => a = b
           /\ heldUrls \cap objectUrls.revoked = {}
    /\ heldUrls \subseteq 1..objectUrls.created
    /\ mounted => objectUrls.revoked = (1..objectUrls.created) \ heldUrls
    /\ ~mounted => objectUrls.revoked = 1..objectUrls.created

-----------------------------------------------------------------------------
(* Properties of overlapping saves *)

\* the step commits a db.meta.put and leaves no put request waiting
AllSavesCompleted ==
    /\ pending.meta # <<>>
    /\ pending'.meta = Tail(pending.meta)
    /\ pending'.projects = <<>>
    /\ pending'.meta = <<>>

\* C26: when the last of several saveProject calls in flight completes, it
\* is the call that was started last, and the lastProjectId entry names the
\* project of that call.
C26_LastSaveWins ==
    [][AllSavesCompleted =>
          /\ Head(pending.meta).call = pending.started
          /\ store'.meta = {[key |-> "lastProjectId",
                             value |-> Head(pending.meta).project.id]}
          /\ Head(pending.meta).project \in store'.projects
      ]_vars

\* the saveProject calls of two different projects are in flight, both
\* between their two puts, and lastProjectId still names a third project
C26_Witness ==
    /\ pending.projects = <<>>
    /\ Len(pending.meta) = 2
    /\ pending.meta[1].project.id # pending.meta[2].project.id
    /\ \A item \in store.meta :
           /\ item.value # pending.meta[1].project.id
           /\ item.value # pending.meta[2].project.id

-----------------------------------------------------------------------------
(* Properties of crop events *)

\* the project after every event of the batch has acted on the result of
\* the event before it
RECURSIVE inDeliveryOrder(_, _)
inDeliveryOrder(state, events) ==
    IF events = <<>> THEN state
    ELSE inDeliveryOrder(
             IF Head(events).kind = "onInteractionStart"
             THEN interactionStarted(state, Head(events).id)
             ELSE cropPatched(state, Head(events).id, Head(events).cropUpdate),
             Tail(events))

\* C27: after crop events were delivered to the handlers of one render, the
\* project reflects the patches of all of them in delivery order.  The
\* value handleCropUpdate sets is made from the project of the render, so
\* it overwrites what the events before it did.
C27_NoCropUpdateLost ==
    cropBatch # NoJob =>
        project = inDeliveryOrder(cropBatch.project, cropBatch.events)

-----------------------------------------------------------------------------
(* Properties of the exporting flag *)

\* C28: while the component is mounted, isExportingPdf is true exactly
\* while a handleExportPdf call on a project with images is between its
\* start and its end; it is set by the step that starts the export, which
\* happens only while it is false and no other call is running, and cleared
\* by the step that ends the export, on success and on the failure of any
\* of its awaits; while it is true the call waits at one of its awaits,
\* each of which ends the export or leads to the next.  A component that
\* was torn down has no button, and its flag is not written any more.
C28_ExportFlag ==
    /\ [](mounted => (isExportingPdf <=> ~Settled))
    /\ [](mounted /\ isExportingPdf =>
              pc \in {"create", "render", "arrayBuffer", "embed", "save"})
    /\ [][/\ exportsStarted' # exportsStarted =>
                 /\ mounted
                 /\ ~isExportingPdf
                 /\ Settled
                 /\ isExportingPdf' \/ pc' = "failed"
                 /\ project.images # <<>>
          /\ (mounted /\ isExportingPdf /\ pc' \in {"done", "failed"}) =>
                 ~isExportingPdf'
          /\ (~mounted /\ isExportingPdf) => isExportingPdf'
          /\ (isExportingPdf /\ ~isExportingPdf') =>
                 pc' \in {"done", "failed"}
         ]_vars

\* after an export that failed a second export was started; it has placed
\* its tiles, failed in pdfDoc.save() and the flag is cleared
C28_Witness ==
    /\ mounted
    /\ exportsStarted = 2
    /\ downloaded = <<>>
    /\ renderCalls >= 2
    /\ pc = "failed"
    /\ failure = "SerializationFailed"
    /\ ~isExportingPdf

-----------------------------------------------------------------------------
(* The stepper being used while the project changes *)

\* the arguments of handleStepChange: the steps, one below and one above
StepRequests == -1..Len(steps)

\* parsed project files without images and with one image
StepFiles == ImportedFiles \cup ExportedFiles

InitStep ==
    /\ InitLive
    /\ variant = "margin"

NextStep ==
    \/ \E nextStep \in StepRequests : handleStepChange(nextStep)
    \/ /\ Editable /\ Saved
       /\ handleCreateNew /\ rendered /\ UNCHANGED <<downloaded, otherUi>>
    \/ /\ Editable /\ Saved
       /\ nextId <= MaxLiveImages + 1
       /\ handleAddImages(1) /\ rendered /\ UNCHANGED <<downloaded, otherUi>>
    \/ /\ Editable /\ Saved
       /\ \E id \in imageIds(project) :
              /\ handleRemoveImage(id) /\ rendered /\ UNCHANGED <<downloaded, otherUi>>
    \/ \E imported \in StepFiles :
           /\ Editable /\ Saved
           /\ pending.started + Len(fileJobs.imports) + 1 < MaxSaves
           /\ handleImportProject(fileOf(imported))
    \/ fileTextSettled
    \/ projectsPutSettled
    \/ metaPutShown

SpecStep == InitStep /\ [][NextStep]_vars

\* C29: handleStepChange passes a step between 0 and maxStep to
\* setActiveStep whatever its argument is, and once the effects have run
\* after any step change, addition or removal of images, new project or
\* import, the step is between 0 and 2 and is 0 when the project has no
\* images.
C29_StepInRange ==
    /\ project # NoProject =>
           \A nextStep \in StepRequests :
               clampedStep(project, nextStep) \in 0..maxStep(project)
    /\ activeStep \in 0..2
    /\ (project # NoProject /\ Len(project.images) = 0) => activeStep = 0

\* the images of a project that was saved with images have been removed,
\* and the first step is shown although later steps were reachable
C29_Witness ==
    /\ project # NoProject
    /\ Len(project.images) = 0
    /\ activeStep = 0
    /\ \E stored \in store.projects :
           stored.id = project.id /\ Len(stored.images) > 0

-----------------------------------------------------------------------------
(* The layout of projects that are created, changed and imported *)

\* parsed project files without images: without a layout, with a layout no
\* variant defines, and with one every variant defines
LayoutFiles ==
    {[images |-> <<>>],
     [id |-> 0, name |-> "Tiere", createdAt |-> 0, note |-> "",
      layout |-> 5, images |-> <<>>],
     [id |-> 0, name |-> "Tiere", createdAt |-> 0, note |-> "",
      layout |-> 6, images |-> <<>>]}

NextLayout ==
    \/ /\ Editable /\ Saved
       /\ handleCreateNew /\ rendered /\ UNCHANGED <<downloaded, otherUi>>
    \/ \E layout \in layoutOptions(variant) :
           /\ Editable /\ Saved
           /\ handleLayoutChange(layout) /\ rendered /\ UNCHANGED <<downloaded, otherUi>>
    \/ \E imported \in LayoutFiles :
           /\ Editable /\ Saved
           /\ pending.started + Len(fileJobs.imports) + 1 < MaxSaves
           /\ handleImportProject(fileOf(imported))
    \/ fileTextSettled
    \/ projectsPutSettled
    \/ metaPutShown

SpecLayout == InitLive /\ [][NextLayout]_vars

\* C30: the layout of the project shown is always one of the template ids
\* of layoutConfig, after new projects, layout changes and imports of files
\* with a missing or an unknown layout.
C30_LayoutDefined ==
    project # NoProject => project.layout \in layoutOptions(variant)

=============================================================================
